---- MODULE Spec2Model ----
(***************************************************************************)
(* The generated Google Drive v3 bindings of drive_v3_types.rs: nine       *)
(* service objects, each holding a stored scope list, and forty-eight      *)
(* operations that all follow one hand-inlined pattern: ask the            *)
(* authenticator for a token, build the URL and the request, hand the      *)
(* request to the HTTP client, and interpret the response.                 *)
(*                                                                         *)
(* Text is modelled as a sequence of lexemes.  The literals of the source  *)
(* are cut at every character that is not a letter, a digit, '_', '.' or   *)
(* '-', so that "&driveId=" is <<"&", "driveId", "=">>; caller data is a   *)
(* sequence of bytes (integers) and enters a text one lexeme per byte.     *)
(***************************************************************************)
EXTENDS Integers, Sequences, FiniteSets, TLC

\* ---- Bounds of the model ----
MaxSet == 2        \* optional query parameters set in one call
MaxChunks == 2     \* chunks in one streamed response body

\* ---- Option<T> ----
None == <<>>
Some(v) == <<v>>

\* ---- Bytes and their text ----
Printable ==
  <<
    " ", "!", "\"", "#", "$", "%", "&", "'", "(", ")", "*", "+", ",", "-", ".", "/",
    "0", "1", "2", "3", "4", "5", "6", "7", "8", "9", ":", ";", "<", "=", ">", "?",
    "@", "A", "B", "C", "D", "E", "F", "G", "H", "I", "J", "K", "L", "M", "N", "O",
    "P", "Q", "R", "S", "T", "U", "V", "W", "X", "Y", "Z", "[", "<5C>", "]", "^", "_",
    "<60>", "a", "b", "c", "d", "e", "f", "g", "h", "i", "j", "k", "l", "m", "n", "o",
    "p", "q", "r", "s", "t", "u", "v", "w", "x", "y", "z", "{", "|", "}", "~"
  >>

HexDigits ==
  <<"0", "1", "2", "3", "4", "5", "6", "7", "8", "9", "A", "B", "C", "D", "E", "F">>

HexDigit(n) == HexDigits[n + 1]

\* The lexeme of one byte: the character itself when it is printable ASCII
\* (the backslash is written <5C>, the backquote <60>), else <XX>.
Chr(b) ==
  IF b \in 32..126 THEN Printable[b - 31]
  ELSE "<" \o HexDigit(b \div 16) \o HexDigit(b % 16) \o ">"

Text(bytes) == [k \in 1..Len(bytes) |-> Chr(bytes[k])]

\* percent_encoding::NON_ALPHANUMERIC: every ASCII byte that is not a letter
\* or a digit.  percent_encode also escapes every byte that is not ASCII.
IsAsciiAlphanumeric(b) == b \in (48..57) \cup (65..90) \cup (97..122)

\* percent_encoding::CONTROLS, the set a variant of the encoder would use.
CONTROLS == (0..31) \cup {127}

NON_ALPHANUMERIC == {b \in 0..127 : ~IsAsciiAlphanumeric(b)}

PercentEncodeByte(b) ==
  IF b >= 128 \/ b \in NON_ALPHANUMERIC
  THEN <<"%", HexDigit(b \div 16), HexDigit(b % 16)>>
  ELSE <<Chr(b)>>

RECURSIVE percent_encode(_)
percent_encode(bytes) ==
  IF bytes = <<>> THEN <<>>
  ELSE PercentEncodeByte(Head(bytes)) \o percent_encode(Tail(bytes))

\* format!("{}", val) for the three scalar types of the parameter structs.
FmtBool(v) == IF v THEN <<116, 114, 117, 101>> ELSE <<102, 97, 108, 115, 101>>

RECURSIVE FmtNat(_)
FmtNat(n) == IF n < 10 THEN <<48 + n>> ELSE FmtNat(n \div 10) \o <<48 + (n % 10)>>

FmtI32(n) == IF n < 0 THEN <<45>> \o FmtNat(0 - n) ELSE FmtNat(n)

\* format! with named arguments: every "{name}" whose name has an argument
\* is replaced by that argument.
RECURSIVE Format(_, _)
Format(tpl, args) ==
  IF tpl = <<>> THEN <<>>
  ELSE IF Len(tpl) >= 3 /\ tpl[1] = "{" /\ tpl[3] = "}" /\ tpl[2] \in DOMAIN args
       THEN args[tpl[2]] \o Format(SubSeq(tpl, 4, Len(tpl)), args)
       ELSE <<tpl[1]>> \o Format(Tail(tpl), args)

\* ---- Inputs the environment draws from ----
\* "", "a &=", "?/%<C3>9"
StrVals == << <<>>, <<97, 32, 38, 61>>, <<63, 47, 37, 195, 57>> >>
\* resource identifiers: "a", "Z-7"
PathVals == << <<97>>, <<90, 45, 55>> >>
I32Vals == <<0 - 3, 25>>
BoolVals == <<TRUE, FALSE>>
Tokens == {"ya29.A", "ya29.B"}
ScopeArgs ==
  {<<>>,
   <<"https://www.googleapis.com/auth/drive.readonly">>,
   <<"https://www.googleapis.com/auth/drive.file",
     "https://www.googleapis.com/auth/drive.readonly">>}

\* ---- Parameter structs: one <<field, type, serde name>> triple per field, in declaration order ----
AboutGetParams ==
  <<>>

ChangesGetStartPageTokenParams ==
  <<
    <<"drive_id", "Option<String>", "driveId">>,
    <<"supports_all_drives", "Option<bool>", "supportsAllDrives">>,
    <<"supports_team_drives", "Option<bool>", "supportsTeamDrives">>,
    <<"team_drive_id", "Option<String>", "teamDriveId">>>>

ChangesListParams ==
  <<
    <<"drive_id", "Option<String>", "driveId">>,
    <<"include_corpus_removals", "Option<bool>", "includeCorpusRemovals">>,
    <<"include_items_from_all_drives", "Option<bool>", "includeItemsFromAllDrives">>,
    <<"include_permissions_for_view", "Option<String>", "includePermissionsForView">>,
    <<"include_removed", "Option<bool>", "includeRemoved">>,
    <<"include_team_drive_items", "Option<bool>", "includeTeamDriveItems">>,
    <<"page_size", "Option<i32>", "pageSize">>,
    <<"page_token", "String", "pageToken">>,
    <<"restrict_to_my_drive", "Option<bool>", "restrictToMyDrive">>,
    <<"spaces", "Option<String>", "spaces">>,
    <<"supports_all_drives", "Option<bool>", "supportsAllDrives">>,
    <<"supports_team_drives", "Option<bool>", "supportsTeamDrives">>,
    <<"team_drive_id", "Option<String>", "teamDriveId">>>>

ChangesWatchParams ==
  <<
    <<"drive_id", "Option<String>", "driveId">>,
    <<"include_corpus_removals", "Option<bool>", "includeCorpusRemovals">>,
    <<"include_items_from_all_drives", "Option<bool>", "includeItemsFromAllDrives">>,
    <<"include_permissions_for_view", "Option<String>", "includePermissionsForView">>,
    <<"include_removed", "Option<bool>", "includeRemoved">>,
    <<"include_team_drive_items", "Option<bool>", "includeTeamDriveItems">>,
    <<"page_size", "Option<i32>", "pageSize">>,
    <<"page_token", "String", "pageToken">>,
    <<"restrict_to_my_drive", "Option<bool>", "restrictToMyDrive">>,
    <<"spaces", "Option<String>", "spaces">>,
    <<"supports_all_drives", "Option<bool>", "supportsAllDrives">>,
    <<"supports_team_drives", "Option<bool>", "supportsTeamDrives">>,
    <<"team_drive_id", "Option<String>", "teamDriveId">>>>

ChannelsStopParams ==
  <<>>

CommentsCreateParams ==
  <<
    <<"file_id", "String", "fileId">>>>

CommentsDeleteParams ==
  <<
    <<"comment_id", "String", "commentId">>,
    <<"file_id", "String", "fileId">>>>

CommentsGetParams ==
  <<
    <<"comment_id", "String", "commentId">>,
    <<"file_id", "String", "fileId">>,
    <<"include_deleted", "Option<bool>", "includeDeleted">>>>

CommentsListParams ==
  <<
    <<"file_id", "String", "fileId">>,
    <<"include_deleted", "Option<bool>", "includeDeleted">>,
    <<"page_size", "Option<i32>", "pageSize">>,
    <<"page_token", "Option<String>", "pageToken">>,
    <<"start_modified_time", "Option<String>", "startModifiedTime">>>>

CommentsUpdateParams ==
  <<
    <<"comment_id", "String", "commentId">>,
    <<"file_id", "String", "fileId">>>>

DrivesCreateParams ==
  <<
    <<"request_id", "String", "requestId">>>>

DrivesDeleteParams ==
  <<
    <<"drive_id", "String", "driveId">>>>

DrivesGetParams ==
  <<
    <<"drive_id", "String", "driveId">>,
    <<"use_domain_admin_access", "Option<bool>", "useDomainAdminAccess">>>>

DrivesHideParams ==
  <<
    <<"drive_id", "String", "driveId">>>>

DrivesListParams ==
  <<
    <<"page_size", "Option<i32>", "pageSize">>,
    <<"page_token", "Option<String>", "pageToken">>,
    <<"q", "Option<String>", "q">>,
    <<"use_domain_admin_access", "Option<bool>", "useDomainAdminAccess">>>>

DrivesUnhideParams ==
  <<
    <<"drive_id", "String", "driveId">>>>

DrivesUpdateParams ==
  <<
    <<"drive_id", "String", "driveId">>,
    <<"use_domain_admin_access", "Option<bool>", "useDomainAdminAccess">>>>

FilesCopyParams ==
  <<
    <<"enforce_single_parent", "Option<bool>", "enforceSingleParent">>,
    <<"file_id", "String", "fileId">>,
    <<"ignore_default_visibility", "Option<bool>", "ignoreDefaultVisibility">>,
    <<"include_permissions_for_view", "Option<String>", "includePermissionsForView">>,
    <<"keep_revision_forever", "Option<bool>", "keepRevisionForever">>,
    <<"ocr_language", "Option<String>", "ocrLanguage">>,
    <<"supports_all_drives", "Option<bool>", "supportsAllDrives">>,
    <<"supports_team_drives", "Option<bool>", "supportsTeamDrives">>>>

FilesCreateParams ==
  <<
    <<"enforce_single_parent", "Option<bool>", "enforceSingleParent">>,
    <<"ignore_default_visibility", "Option<bool>", "ignoreDefaultVisibility">>,
    <<"include_permissions_for_view", "Option<String>", "includePermissionsForView">>,
    <<"keep_revision_forever", "Option<bool>", "keepRevisionForever">>,
    <<"ocr_language", "Option<String>", "ocrLanguage">>,
    <<"supports_all_drives", "Option<bool>", "supportsAllDrives">>,
    <<"supports_team_drives", "Option<bool>", "supportsTeamDrives">>,
    <<"use_content_as_indexable_text", "Option<bool>", "useContentAsIndexableText">>>>

FilesDeleteParams ==
  <<
    <<"enforce_single_parent", "Option<bool>", "enforceSingleParent">>,
    <<"file_id", "String", "fileId">>,
    <<"supports_all_drives", "Option<bool>", "supportsAllDrives">>,
    <<"supports_team_drives", "Option<bool>", "supportsTeamDrives">>>>

FilesEmptyTrashParams ==
  <<
    <<"enforce_single_parent", "Option<bool>", "enforceSingleParent">>>>

FilesExportParams ==
  <<
    <<"file_id", "String", "fileId">>,
    <<"mime_type", "String", "mimeType">>>>

FilesGenerateIdsParams ==
  <<
    <<"count", "Option<i32>", "count">>,
    <<"space", "Option<String>", "space">>>>

FilesGetParams ==
  <<
    <<"acknowledge_abuse", "Option<bool>", "acknowledgeAbuse">>,
    <<"file_id", "String", "fileId">>,
    <<"include_permissions_for_view", "Option<String>", "includePermissionsForView">>,
    <<"supports_all_drives", "Option<bool>", "supportsAllDrives">>,
    <<"supports_team_drives", "Option<bool>", "supportsTeamDrives">>>>

FilesListParams ==
  <<
    <<"corpora", "Option<String>", "corpora">>,
    <<"corpus", "Option<String>", "corpus">>,
    <<"drive_id", "Option<String>", "driveId">>,
    <<"include_items_from_all_drives", "Option<bool>", "includeItemsFromAllDrives">>,
    <<"include_permissions_for_view", "Option<String>", "includePermissionsForView">>,
    <<"include_team_drive_items", "Option<bool>", "includeTeamDriveItems">>,
    <<"order_by", "Option<String>", "orderBy">>,
    <<"page_size", "Option<i32>", "pageSize">>,
    <<"page_token", "Option<String>", "pageToken">>,
    <<"q", "Option<String>", "q">>,
    <<"spaces", "Option<String>", "spaces">>,
    <<"supports_all_drives", "Option<bool>", "supportsAllDrives">>,
    <<"supports_team_drives", "Option<bool>", "supportsTeamDrives">>,
    <<"team_drive_id", "Option<String>", "teamDriveId">>>>

FilesUpdateParams ==
  <<
    <<"add_parents", "Option<String>", "addParents">>,
    <<"enforce_single_parent", "Option<bool>", "enforceSingleParent">>,
    <<"file_id", "String", "fileId">>,
    <<"include_permissions_for_view", "Option<String>", "includePermissionsForView">>,
    <<"keep_revision_forever", "Option<bool>", "keepRevisionForever">>,
    <<"ocr_language", "Option<String>", "ocrLanguage">>,
    <<"remove_parents", "Option<String>", "removeParents">>,
    <<"supports_all_drives", "Option<bool>", "supportsAllDrives">>,
    <<"supports_team_drives", "Option<bool>", "supportsTeamDrives">>,
    <<"use_content_as_indexable_text", "Option<bool>", "useContentAsIndexableText">>>>

FilesWatchParams ==
  <<
    <<"acknowledge_abuse", "Option<bool>", "acknowledgeAbuse">>,
    <<"file_id", "String", "fileId">>,
    <<"include_permissions_for_view", "Option<String>", "includePermissionsForView">>,
    <<"supports_all_drives", "Option<bool>", "supportsAllDrives">>,
    <<"supports_team_drives", "Option<bool>", "supportsTeamDrives">>>>

PermissionsCreateParams ==
  <<
    <<"email_message", "Option<String>", "emailMessage">>,
    <<"enforce_single_parent", "Option<bool>", "enforceSingleParent">>,
    <<"file_id", "String", "fileId">>,
    <<"move_to_new_owners_root", "Option<bool>", "moveToNewOwnersRoot">>,
    <<"send_notification_email", "Option<bool>", "sendNotificationEmail">>,
    <<"supports_all_drives", "Option<bool>", "supportsAllDrives">>,
    <<"supports_team_drives", "Option<bool>", "supportsTeamDrives">>,
    <<"transfer_ownership", "Option<bool>", "transferOwnership">>,
    <<"use_domain_admin_access", "Option<bool>", "useDomainAdminAccess">>>>

PermissionsDeleteParams ==
  <<
    <<"file_id", "String", "fileId">>,
    <<"permission_id", "String", "permissionId">>,
    <<"supports_all_drives", "Option<bool>", "supportsAllDrives">>,
    <<"supports_team_drives", "Option<bool>", "supportsTeamDrives">>,
    <<"use_domain_admin_access", "Option<bool>", "useDomainAdminAccess">>>>

PermissionsGetParams ==
  <<
    <<"file_id", "String", "fileId">>,
    <<"permission_id", "String", "permissionId">>,
    <<"supports_all_drives", "Option<bool>", "supportsAllDrives">>,
    <<"supports_team_drives", "Option<bool>", "supportsTeamDrives">>,
    <<"use_domain_admin_access", "Option<bool>", "useDomainAdminAccess">>>>

PermissionsListParams ==
  <<
    <<"file_id", "String", "fileId">>,
    <<"include_permissions_for_view", "Option<String>", "includePermissionsForView">>,
    <<"page_size", "Option<i32>", "pageSize">>,
    <<"page_token", "Option<String>", "pageToken">>,
    <<"supports_all_drives", "Option<bool>", "supportsAllDrives">>,
    <<"supports_team_drives", "Option<bool>", "supportsTeamDrives">>,
    <<"use_domain_admin_access", "Option<bool>", "useDomainAdminAccess">>>>

PermissionsUpdateParams ==
  <<
    <<"file_id", "String", "fileId">>,
    <<"permission_id", "String", "permissionId">>,
    <<"remove_expiration", "Option<bool>", "removeExpiration">>,
    <<"supports_all_drives", "Option<bool>", "supportsAllDrives">>,
    <<"supports_team_drives", "Option<bool>", "supportsTeamDrives">>,
    <<"transfer_ownership", "Option<bool>", "transferOwnership">>,
    <<"use_domain_admin_access", "Option<bool>", "useDomainAdminAccess">>>>

RepliesCreateParams ==
  <<
    <<"comment_id", "String", "commentId">>,
    <<"file_id", "String", "fileId">>>>

RepliesDeleteParams ==
  <<
    <<"comment_id", "String", "commentId">>,
    <<"file_id", "String", "fileId">>,
    <<"reply_id", "String", "replyId">>>>

RepliesGetParams ==
  <<
    <<"comment_id", "String", "commentId">>,
    <<"file_id", "String", "fileId">>,
    <<"include_deleted", "Option<bool>", "includeDeleted">>,
    <<"reply_id", "String", "replyId">>>>

RepliesListParams ==
  <<
    <<"comment_id", "String", "commentId">>,
    <<"file_id", "String", "fileId">>,
    <<"include_deleted", "Option<bool>", "includeDeleted">>,
    <<"page_size", "Option<i32>", "pageSize">>,
    <<"page_token", "Option<String>", "pageToken">>>>

RepliesUpdateParams ==
  <<
    <<"comment_id", "String", "commentId">>,
    <<"file_id", "String", "fileId">>,
    <<"reply_id", "String", "replyId">>>>

RevisionsDeleteParams ==
  <<
    <<"file_id", "String", "fileId">>,
    <<"revision_id", "String", "revisionId">>>>

RevisionsGetParams ==
  <<
    <<"acknowledge_abuse", "Option<bool>", "acknowledgeAbuse">>,
    <<"file_id", "String", "fileId">>,
    <<"revision_id", "String", "revisionId">>>>

RevisionsListParams ==
  <<
    <<"file_id", "String", "fileId">>,
    <<"page_size", "Option<i32>", "pageSize">>,
    <<"page_token", "Option<String>", "pageToken">>>>

RevisionsUpdateParams ==
  <<
    <<"file_id", "String", "fileId">>,
    <<"revision_id", "String", "revisionId">>>>

TeamdrivesCreateParams ==
  <<
    <<"request_id", "String", "requestId">>>>

TeamdrivesDeleteParams ==
  <<
    <<"team_drive_id", "String", "teamDriveId">>>>

TeamdrivesGetParams ==
  <<
    <<"team_drive_id", "String", "teamDriveId">>,
    <<"use_domain_admin_access", "Option<bool>", "useDomainAdminAccess">>>>

TeamdrivesListParams ==
  <<
    <<"page_size", "Option<i32>", "pageSize">>,
    <<"page_token", "Option<String>", "pageToken">>,
    <<"q", "Option<String>", "q">>,
    <<"use_domain_admin_access", "Option<bool>", "useDomainAdminAccess">>>>

TeamdrivesUpdateParams ==
  <<
    <<"team_drive_id", "String", "teamDriveId">>,
    <<"use_domain_admin_access", "Option<bool>", "useDomainAdminAccess">>>>

\* ---- Operations: what each generated method hard-codes ----
AboutService_get ==
  [id |-> "AboutService::get", svc |-> "AboutService", params |-> AboutGetParams,
   payload |-> "", ret |-> "About",
   rel |-> <<"about">>, fmt |-> TRUE,
   args |-> <<>>,
   base |-> <<"https", ":", "/", "/", "www.googleapis.com", "/", "drive", "/", "v3", "/">>,
   fallback |-> TRUE,
   dflt |-> <<"https://www.googleapis.com/auth/drive",
             "https://www.googleapis.com/auth/drive.appdata",
             "https://www.googleapis.com/auth/drive.file",
             "https://www.googleapis.com/auth/drive.metadata",
             "https://www.googleapis.com/auth/drive.metadata.readonly",
             "https://www.googleapis.com/auth/drive.photos.readonly",
             "https://www.googleapis.com/auth/drive.readonly">>,
   tokArg |-> "self.scopes",
   prefix |-> <<"?", "oauth_token", "=", "{", "token", "}", "&", "fields", "=", "*">>,
   query |-> <<>>,
   verb |-> "GET", header |-> "Content-Type", hval |-> "application/json",
   body |-> "none", resp |-> "buffered"]

ChangesService_get_start_page_token ==
  [id |-> "ChangesService::get_start_page_token", svc |-> "ChangesService", params |-> ChangesGetStartPageTokenParams,
   payload |-> "", ret |-> "StartPageToken",
   rel |-> <<"changes", "/", "startPageToken">>, fmt |-> TRUE,
   args |-> <<>>,
   base |-> <<"https", ":", "/", "/", "www.googleapis.com", "/", "drive", "/", "v3", "/">>,
   fallback |-> TRUE,
   dflt |-> <<"https://www.googleapis.com/auth/drive",
             "https://www.googleapis.com/auth/drive.appdata",
             "https://www.googleapis.com/auth/drive.file",
             "https://www.googleapis.com/auth/drive.metadata",
             "https://www.googleapis.com/auth/drive.metadata.readonly",
             "https://www.googleapis.com/auth/drive.photos.readonly",
             "https://www.googleapis.com/auth/drive.readonly">>,
   tokArg |-> "self.scopes",
   prefix |-> <<"?", "oauth_token", "=", "{", "token", "}", "&", "fields", "=", "*">>,
   query |-> <<<<"driveId", "drive_id", FALSE>>,
             <<"supportsAllDrives", "supports_all_drives", FALSE>>,
             <<"supportsTeamDrives", "supports_team_drives", FALSE>>,
             <<"teamDriveId", "team_drive_id", FALSE>>>>,
   verb |-> "GET", header |-> "Content-Type", hval |-> "application/json",
   body |-> "none", resp |-> "buffered"]

ChangesService_list ==
  [id |-> "ChangesService::list", svc |-> "ChangesService", params |-> ChangesListParams,
   payload |-> "", ret |-> "ChangeList",
   rel |-> <<"changes">>, fmt |-> TRUE,
   args |-> <<>>,
   base |-> <<"https", ":", "/", "/", "www.googleapis.com", "/", "drive", "/", "v3", "/">>,
   fallback |-> TRUE,
   dflt |-> <<"https://www.googleapis.com/auth/drive",
             "https://www.googleapis.com/auth/drive.appdata",
             "https://www.googleapis.com/auth/drive.file",
             "https://www.googleapis.com/auth/drive.metadata",
             "https://www.googleapis.com/auth/drive.metadata.readonly",
             "https://www.googleapis.com/auth/drive.photos.readonly",
             "https://www.googleapis.com/auth/drive.readonly">>,
   tokArg |-> "self.scopes",
   prefix |-> <<"?", "oauth_token", "=", "{", "token", "}", "&", "fields", "=", "*">>,
   query |-> <<<<"driveId", "drive_id", FALSE>>,
             <<"includeCorpusRemovals", "include_corpus_removals", FALSE>>,
             <<"includeItemsFromAllDrives", "include_items_from_all_drives", FALSE>>,
             <<"includePermissionsForView", "include_permissions_for_view", FALSE>>,
             <<"includeRemoved", "include_removed", FALSE>>,
             <<"includeTeamDriveItems", "include_team_drive_items", FALSE>>,
             <<"pageSize", "page_size", FALSE>>,
             <<"restrictToMyDrive", "restrict_to_my_drive", FALSE>>,
             <<"spaces", "spaces", FALSE>>,
             <<"supportsAllDrives", "supports_all_drives", FALSE>>,
             <<"supportsTeamDrives", "supports_team_drives", FALSE>>,
             <<"teamDriveId", "team_drive_id", FALSE>>,
             <<"pageToken", "page_token", TRUE>>>>,
   verb |-> "GET", header |-> "Content-Type", hval |-> "application/json",
   body |-> "none", resp |-> "buffered"]

ChangesService_watch ==
  [id |-> "ChangesService::watch", svc |-> "ChangesService", params |-> ChangesWatchParams,
   payload |-> "Channel", ret |-> "Channel",
   rel |-> <<"changes", "/", "watch">>, fmt |-> TRUE,
   args |-> <<>>,
   base |-> <<"https", ":", "/", "/", "www.googleapis.com", "/", "drive", "/", "v3", "/">>,
   fallback |-> TRUE,
   dflt |-> <<"https://www.googleapis.com/auth/drive",
             "https://www.googleapis.com/auth/drive.appdata",
             "https://www.googleapis.com/auth/drive.file",
             "https://www.googleapis.com/auth/drive.metadata",
             "https://www.googleapis.com/auth/drive.metadata.readonly",
             "https://www.googleapis.com/auth/drive.photos.readonly",
             "https://www.googleapis.com/auth/drive.readonly">>,
   tokArg |-> "self.scopes",
   prefix |-> <<"?", "oauth_token", "=", "{", "token", "}", "&", "fields", "=", "*">>,
   query |-> <<<<"driveId", "drive_id", FALSE>>,
             <<"includeCorpusRemovals", "include_corpus_removals", FALSE>>,
             <<"includeItemsFromAllDrives", "include_items_from_all_drives", FALSE>>,
             <<"includePermissionsForView", "include_permissions_for_view", FALSE>>,
             <<"includeRemoved", "include_removed", FALSE>>,
             <<"includeTeamDriveItems", "include_team_drive_items", FALSE>>,
             <<"pageSize", "page_size", FALSE>>,
             <<"restrictToMyDrive", "restrict_to_my_drive", FALSE>>,
             <<"spaces", "spaces", FALSE>>,
             <<"supportsAllDrives", "supports_all_drives", FALSE>>,
             <<"supportsTeamDrives", "supports_team_drives", FALSE>>,
             <<"teamDriveId", "team_drive_id", FALSE>>,
             <<"pageToken", "page_token", TRUE>>>>,
   verb |-> "POST", header |-> "Content-Type", hval |-> "application/json",
   body |-> "json", resp |-> "buffered"]

ChannelsService_stop ==
  [id |-> "ChannelsService::stop", svc |-> "ChannelsService", params |-> ChannelsStopParams,
   payload |-> "Channel", ret |-> "()",
   rel |-> <<"channels", "/", "stop">>, fmt |-> TRUE,
   args |-> <<>>,
   base |-> <<"https", ":", "/", "/", "www.googleapis.com", "/", "drive", "/", "v3", "/">>,
   fallback |-> TRUE,
   dflt |-> <<"https://www.googleapis.com/auth/drive",
             "https://www.googleapis.com/auth/drive.appdata",
             "https://www.googleapis.com/auth/drive.file",
             "https://www.googleapis.com/auth/drive.metadata",
             "https://www.googleapis.com/auth/drive.metadata.readonly",
             "https://www.googleapis.com/auth/drive.photos.readonly",
             "https://www.googleapis.com/auth/drive.readonly">>,
   tokArg |-> "self.scopes",
   prefix |-> <<"?", "oauth_token", "=", "{", "token", "}", "&", "fields", "=", "*">>,
   query |-> <<>>,
   verb |-> "POST", header |-> "Content-Type", hval |-> "application/json",
   body |-> "json", resp |-> "buffered"]

CommentsService_create ==
  [id |-> "CommentsService::create", svc |-> "CommentsService", params |-> CommentsCreateParams,
   payload |-> "Comment", ret |-> "Comment",
   rel |-> <<"files", "/", "{", "fileId", "}", "/", "comments">>, fmt |-> TRUE,
   args |-> <<<<"fileId", "file_id">>>>,
   base |-> <<"https", ":", "/", "/", "www.googleapis.com", "/", "drive", "/", "v3", "/">>,
   fallback |-> TRUE,
   dflt |-> <<"https://www.googleapis.com/auth/drive",
             "https://www.googleapis.com/auth/drive.file">>,
   tokArg |-> "self.scopes",
   prefix |-> <<"?", "oauth_token", "=", "{", "token", "}", "&", "fields", "=", "*">>,
   query |-> <<>>,
   verb |-> "POST", header |-> "Content-Type", hval |-> "application/json",
   body |-> "json", resp |-> "buffered"]

CommentsService_delete ==
  [id |-> "CommentsService::delete", svc |-> "CommentsService", params |-> CommentsDeleteParams,
   payload |-> "", ret |-> "()",
   rel |-> <<"files", "/", "{", "fileId", "}", "/", "comments", "/", "{", "commentId", "}">>, fmt |-> TRUE,
   args |-> <<<<"fileId", "file_id">>, <<"commentId", "comment_id">>>>,
   base |-> <<"https", ":", "/", "/", "www.googleapis.com", "/", "drive", "/", "v3", "/">>,
   fallback |-> TRUE,
   dflt |-> <<"https://www.googleapis.com/auth/drive",
             "https://www.googleapis.com/auth/drive.file">>,
   tokArg |-> "self.scopes",
   prefix |-> <<"?", "oauth_token", "=", "{", "token", "}", "&", "fields", "=", "*">>,
   query |-> <<>>,
   verb |-> "DELETE", header |-> "Content-Type", hval |-> "application/json",
   body |-> "none", resp |-> "buffered"]

CommentsService_get ==
  [id |-> "CommentsService::get", svc |-> "CommentsService", params |-> CommentsGetParams,
   payload |-> "", ret |-> "Comment",
   rel |-> <<"files", "/", "{", "fileId", "}", "/", "comments", "/", "{", "commentId", "}">>, fmt |-> TRUE,
   args |-> <<<<"fileId", "file_id">>, <<"commentId", "comment_id">>>>,
   base |-> <<"https", ":", "/", "/", "www.googleapis.com", "/", "drive", "/", "v3", "/">>,
   fallback |-> TRUE,
   dflt |-> <<"https://www.googleapis.com/auth/drive",
             "https://www.googleapis.com/auth/drive.file",
             "https://www.googleapis.com/auth/drive.readonly">>,
   tokArg |-> "self.scopes",
   prefix |-> <<"?", "oauth_token", "=", "{", "token", "}", "&", "fields", "=", "*">>,
   query |-> <<<<"includeDeleted", "include_deleted", FALSE>>>>,
   verb |-> "GET", header |-> "Content-Type", hval |-> "application/json",
   body |-> "none", resp |-> "buffered"]

CommentsService_list ==
  [id |-> "CommentsService::list", svc |-> "CommentsService", params |-> CommentsListParams,
   payload |-> "", ret |-> "CommentList",
   rel |-> <<"files", "/", "{", "fileId", "}", "/", "comments">>, fmt |-> TRUE,
   args |-> <<<<"fileId", "file_id">>>>,
   base |-> <<"https", ":", "/", "/", "www.googleapis.com", "/", "drive", "/", "v3", "/">>,
   fallback |-> TRUE,
   dflt |-> <<"https://www.googleapis.com/auth/drive",
             "https://www.googleapis.com/auth/drive.file",
             "https://www.googleapis.com/auth/drive.readonly">>,
   tokArg |-> "self.scopes",
   prefix |-> <<"?", "oauth_token", "=", "{", "token", "}", "&", "fields", "=", "*">>,
   query |-> <<<<"includeDeleted", "include_deleted", FALSE>>,
             <<"pageSize", "page_size", FALSE>>,
             <<"pageToken", "page_token", FALSE>>,
             <<"startModifiedTime", "start_modified_time", FALSE>>>>,
   verb |-> "GET", header |-> "Content-Type", hval |-> "application/json",
   body |-> "none", resp |-> "buffered"]

CommentsService_update ==
  [id |-> "CommentsService::update", svc |-> "CommentsService", params |-> CommentsUpdateParams,
   payload |-> "Comment", ret |-> "Comment",
   rel |-> <<"files", "/", "{", "fileId", "}", "/", "comments", "/", "{", "commentId", "}">>, fmt |-> TRUE,
   args |-> <<<<"fileId", "file_id">>, <<"commentId", "comment_id">>>>,
   base |-> <<"https", ":", "/", "/", "www.googleapis.com", "/", "drive", "/", "v3", "/">>,
   fallback |-> TRUE,
   dflt |-> <<"https://www.googleapis.com/auth/drive",
             "https://www.googleapis.com/auth/drive.file">>,
   tokArg |-> "self.scopes",
   prefix |-> <<"?", "oauth_token", "=", "{", "token", "}", "&", "fields", "=", "*">>,
   query |-> <<>>,
   verb |-> "PATCH", header |-> "Content-Type", hval |-> "application/json",
   body |-> "json", resp |-> "buffered"]

DrivesService_create ==
  [id |-> "DrivesService::create", svc |-> "DrivesService", params |-> DrivesCreateParams,
   payload |-> "Drive", ret |-> "Drive",
   rel |-> <<"drives">>, fmt |-> TRUE,
   args |-> <<>>,
   base |-> <<"https", ":", "/", "/", "www.googleapis.com", "/", "drive", "/", "v3", "/">>,
   fallback |-> TRUE,
   dflt |-> <<"https://www.googleapis.com/auth/drive">>,
   tokArg |-> "self.scopes",
   prefix |-> <<"?", "oauth_token", "=", "{", "token", "}", "&", "fields", "=", "*">>,
   query |-> <<<<"requestId", "request_id", TRUE>>>>,
   verb |-> "POST", header |-> "Content-Type", hval |-> "application/json",
   body |-> "json", resp |-> "buffered"]

DrivesService_delete ==
  [id |-> "DrivesService::delete", svc |-> "DrivesService", params |-> DrivesDeleteParams,
   payload |-> "", ret |-> "()",
   rel |-> <<"drives", "/", "{", "driveId", "}">>, fmt |-> TRUE,
   args |-> <<<<"driveId", "drive_id">>>>,
   base |-> <<"https", ":", "/", "/", "www.googleapis.com", "/", "drive", "/", "v3", "/">>,
   fallback |-> TRUE,
   dflt |-> <<"https://www.googleapis.com/auth/drive">>,
   tokArg |-> "self.scopes",
   prefix |-> <<"?", "oauth_token", "=", "{", "token", "}", "&", "fields", "=", "*">>,
   query |-> <<>>,
   verb |-> "DELETE", header |-> "Content-Type", hval |-> "application/json",
   body |-> "none", resp |-> "buffered"]

DrivesService_get ==
  [id |-> "DrivesService::get", svc |-> "DrivesService", params |-> DrivesGetParams,
   payload |-> "", ret |-> "Drive",
   rel |-> <<"drives", "/", "{", "driveId", "}">>, fmt |-> TRUE,
   args |-> <<<<"driveId", "drive_id">>>>,
   base |-> <<"https", ":", "/", "/", "www.googleapis.com", "/", "drive", "/", "v3", "/">>,
   fallback |-> TRUE,
   dflt |-> <<"https://www.googleapis.com/auth/drive",
             "https://www.googleapis.com/auth/drive.readonly">>,
   tokArg |-> "self.scopes",
   prefix |-> <<"?", "oauth_token", "=", "{", "token", "}", "&", "fields", "=", "*">>,
   query |-> <<<<"useDomainAdminAccess", "use_domain_admin_access", FALSE>>>>,
   verb |-> "GET", header |-> "Content-Type", hval |-> "application/json",
   body |-> "none", resp |-> "buffered"]

DrivesService_hide ==
  [id |-> "DrivesService::hide", svc |-> "DrivesService", params |-> DrivesHideParams,
   payload |-> "", ret |-> "Drive",
   rel |-> <<"drives", "/", "{", "driveId", "}", "/", "hide">>, fmt |-> TRUE,
   args |-> <<<<"driveId", "drive_id">>>>,
   base |-> <<"https", ":", "/", "/", "www.googleapis.com", "/", "drive", "/", "v3", "/">>,
   fallback |-> TRUE,
   dflt |-> <<"https://www.googleapis.com/auth/drive">>,
   tokArg |-> "self.scopes",
   prefix |-> <<"?", "oauth_token", "=", "{", "token", "}", "&", "fields", "=", "*">>,
   query |-> <<>>,
   verb |-> "POST", header |-> "Content-Type", hval |-> "application/json",
   body |-> "none", resp |-> "buffered"]

DrivesService_list ==
  [id |-> "DrivesService::list", svc |-> "DrivesService", params |-> DrivesListParams,
   payload |-> "", ret |-> "DriveList",
   rel |-> <<"drives">>, fmt |-> TRUE,
   args |-> <<>>,
   base |-> <<"https", ":", "/", "/", "www.googleapis.com", "/", "drive", "/", "v3", "/">>,
   fallback |-> TRUE,
   dflt |-> <<"https://www.googleapis.com/auth/drive",
             "https://www.googleapis.com/auth/drive.readonly">>,
   tokArg |-> "self.scopes",
   prefix |-> <<"?", "oauth_token", "=", "{", "token", "}", "&", "fields", "=", "*">>,
   query |-> <<<<"pageSize", "page_size", FALSE>>,
             <<"pageToken", "page_token", FALSE>>,
             <<"q", "q", FALSE>>,
             <<"useDomainAdminAccess", "use_domain_admin_access", FALSE>>>>,
   verb |-> "GET", header |-> "Content-Type", hval |-> "application/json",
   body |-> "none", resp |-> "buffered"]

DrivesService_unhide ==
  [id |-> "DrivesService::unhide", svc |-> "DrivesService", params |-> DrivesUnhideParams,
   payload |-> "", ret |-> "Drive",
   rel |-> <<"drives", "/", "{", "driveId", "}", "/", "unhide">>, fmt |-> TRUE,
   args |-> <<<<"driveId", "drive_id">>>>,
   base |-> <<"https", ":", "/", "/", "www.googleapis.com", "/", "drive", "/", "v3", "/">>,
   fallback |-> TRUE,
   dflt |-> <<"https://www.googleapis.com/auth/drive">>,
   tokArg |-> "self.scopes",
   prefix |-> <<"?", "oauth_token", "=", "{", "token", "}", "&", "fields", "=", "*">>,
   query |-> <<>>,
   verb |-> "POST", header |-> "Content-Type", hval |-> "application/json",
   body |-> "none", resp |-> "buffered"]

DrivesService_update ==
  [id |-> "DrivesService::update", svc |-> "DrivesService", params |-> DrivesUpdateParams,
   payload |-> "Drive", ret |-> "Drive",
   rel |-> <<"drives", "/", "{", "driveId", "}">>, fmt |-> TRUE,
   args |-> <<<<"driveId", "drive_id">>>>,
   base |-> <<"https", ":", "/", "/", "www.googleapis.com", "/", "drive", "/", "v3", "/">>,
   fallback |-> TRUE,
   dflt |-> <<"https://www.googleapis.com/auth/drive">>,
   tokArg |-> "self.scopes",
   prefix |-> <<"?", "oauth_token", "=", "{", "token", "}", "&", "fields", "=", "*">>,
   query |-> <<<<"useDomainAdminAccess", "use_domain_admin_access", FALSE>>>>,
   verb |-> "PATCH", header |-> "Content-Type", hval |-> "application/json",
   body |-> "json", resp |-> "buffered"]

FilesService_copy ==
  [id |-> "FilesService::copy", svc |-> "FilesService", params |-> FilesCopyParams,
   payload |-> "File", ret |-> "File",
   rel |-> <<"files", "/", "{", "fileId", "}", "/", "copy">>, fmt |-> TRUE,
   args |-> <<<<"fileId", "file_id">>>>,
   base |-> <<"https", ":", "/", "/", "www.googleapis.com", "/", "drive", "/", "v3", "/">>,
   fallback |-> TRUE,
   dflt |-> <<"https://www.googleapis.com/auth/drive",
             "https://www.googleapis.com/auth/drive.appdata",
             "https://www.googleapis.com/auth/drive.file",
             "https://www.googleapis.com/auth/drive.photos.readonly">>,
   tokArg |-> "self.scopes",
   prefix |-> <<"?", "oauth_token", "=", "{", "token", "}", "&", "fields", "=", "*">>,
   query |-> <<<<"enforceSingleParent", "enforce_single_parent", FALSE>>,
             <<"ignoreDefaultVisibility", "ignore_default_visibility", FALSE>>,
             <<"includePermissionsForView", "include_permissions_for_view", FALSE>>,
             <<"keepRevisionForever", "keep_revision_forever", FALSE>>,
             <<"ocrLanguage", "ocr_language", FALSE>>,
             <<"supportsAllDrives", "supports_all_drives", FALSE>>,
             <<"supportsTeamDrives", "supports_team_drives", FALSE>>>>,
   verb |-> "POST", header |-> "Content-Type", hval |-> "application/json",
   body |-> "json", resp |-> "buffered"]

FilesService_create ==
  [id |-> "FilesService::create", svc |-> "FilesService", params |-> FilesCreateParams,
   payload |-> "File", ret |-> "File",
   rel |-> <<"files">>, fmt |-> TRUE,
   args |-> <<>>,
   base |-> <<"https", ":", "/", "/", "www.googleapis.com", "/", "drive", "/", "v3", "/">>,
   fallback |-> TRUE,
   dflt |-> <<"https://www.googleapis.com/auth/drive",
             "https://www.googleapis.com/auth/drive.appdata",
             "https://www.googleapis.com/auth/drive.file">>,
   tokArg |-> "self.scopes",
   prefix |-> <<"?", "oauth_token", "=", "{", "token", "}", "&", "fields", "=", "*">>,
   query |-> <<<<"enforceSingleParent", "enforce_single_parent", FALSE>>,
             <<"ignoreDefaultVisibility", "ignore_default_visibility", FALSE>>,
             <<"includePermissionsForView", "include_permissions_for_view", FALSE>>,
             <<"keepRevisionForever", "keep_revision_forever", FALSE>>,
             <<"ocrLanguage", "ocr_language", FALSE>>,
             <<"supportsAllDrives", "supports_all_drives", FALSE>>,
             <<"supportsTeamDrives", "supports_team_drives", FALSE>>,
             <<"useContentAsIndexableText", "use_content_as_indexable_text", FALSE>>>>,
   verb |-> "POST", header |-> "Content-Type", hval |-> "application/json",
   body |-> "json", resp |-> "buffered"]

FilesService_create_upload ==
  [id |-> "FilesService::create_upload", svc |-> "FilesService", params |-> FilesCreateParams,
   payload |-> "Bytes", ret |-> "File",
   rel |-> <<"upload", "/", "drive", "/", "v3", "/", "files">>, fmt |-> FALSE,
   args |-> <<>>,
   base |-> <<"https", ":", "/", "/", "www.googleapis.com", "/">>,
   fallback |-> FALSE,
   dflt |-> <<>>,
   tokArg |-> "self.scopes",
   prefix |-> <<"?", "uploadType", "=", "media", "&", "oauth_token", "=", "{", "token", "}", "&", "fields", "=", "*">>,
   query |-> <<<<"enforceSingleParent", "enforce_single_parent", FALSE>>,
             <<"ignoreDefaultVisibility", "ignore_default_visibility", FALSE>>,
             <<"includePermissionsForView", "include_permissions_for_view", FALSE>>,
             <<"keepRevisionForever", "keep_revision_forever", FALSE>>,
             <<"ocrLanguage", "ocr_language", FALSE>>,
             <<"supportsAllDrives", "supports_all_drives", FALSE>>,
             <<"supportsTeamDrives", "supports_team_drives", FALSE>>,
             <<"useContentAsIndexableText", "use_content_as_indexable_text", FALSE>>>>,
   verb |-> "POST", header |-> "Content-Length", hval |-> "data.len()",
   body |-> "bytes", resp |-> "buffered"]

FilesService_delete ==
  [id |-> "FilesService::delete", svc |-> "FilesService", params |-> FilesDeleteParams,
   payload |-> "", ret |-> "()",
   rel |-> <<"files", "/", "{", "fileId", "}">>, fmt |-> TRUE,
   args |-> <<<<"fileId", "file_id">>>>,
   base |-> <<"https", ":", "/", "/", "www.googleapis.com", "/", "drive", "/", "v3", "/">>,
   fallback |-> TRUE,
   dflt |-> <<"https://www.googleapis.com/auth/drive",
             "https://www.googleapis.com/auth/drive.appdata",
             "https://www.googleapis.com/auth/drive.file">>,
   tokArg |-> "self.scopes",
   prefix |-> <<"?", "oauth_token", "=", "{", "token", "}", "&", "fields", "=", "*">>,
   query |-> <<<<"enforceSingleParent", "enforce_single_parent", FALSE>>,
             <<"supportsAllDrives", "supports_all_drives", FALSE>>,
             <<"supportsTeamDrives", "supports_team_drives", FALSE>>>>,
   verb |-> "DELETE", header |-> "Content-Type", hval |-> "application/json",
   body |-> "none", resp |-> "buffered"]

FilesService_empty_trash ==
  [id |-> "FilesService::empty_trash", svc |-> "FilesService", params |-> FilesEmptyTrashParams,
   payload |-> "", ret |-> "()",
   rel |-> <<"files", "/", "trash">>, fmt |-> TRUE,
   args |-> <<>>,
   base |-> <<"https", ":", "/", "/", "www.googleapis.com", "/", "drive", "/", "v3", "/">>,
   fallback |-> TRUE,
   dflt |-> <<"https://www.googleapis.com/auth/drive">>,
   tokArg |-> "self.scopes",
   prefix |-> <<"?", "oauth_token", "=", "{", "token", "}", "&", "fields", "=", "*">>,
   query |-> <<<<"enforceSingleParent", "enforce_single_parent", FALSE>>>>,
   verb |-> "DELETE", header |-> "Content-Type", hval |-> "application/json",
   body |-> "none", resp |-> "buffered"]

FilesService_export ==
  [id |-> "FilesService::export", svc |-> "FilesService", params |-> FilesExportParams,
   payload |-> "", ret |-> "()",
   rel |-> <<"files", "/", "trash">>, fmt |-> TRUE,
   args |-> <<>>,
   base |-> <<"https", ":", "/", "/", "www.googleapis.com", "/", "drive", "/", "v3", "/">>,
   fallback |-> TRUE,
   dflt |-> <<"https://www.googleapis.com/auth/drive",
             "https://www.googleapis.com/auth/drive.file",
             "https://www.googleapis.com/auth/drive.readonly">>,
   tokArg |-> "self.scopes",
   prefix |-> <<"?", "oauth_token", "=", "{", "token", "}", "&", "fields", "=", "*">>,
   query |-> <<<<"mimeType", "mime_type", TRUE>>>>,
   verb |-> "GET", header |-> "Content-Type", hval |-> "application/json",
   body |-> "none", resp |-> "stream"]

FilesService_generate_ids ==
  [id |-> "FilesService::generate_ids", svc |-> "FilesService", params |-> FilesGenerateIdsParams,
   payload |-> "", ret |-> "GeneratedIds",
   rel |-> <<"files", "/", "generateIds">>, fmt |-> TRUE,
   args |-> <<>>,
   base |-> <<"https", ":", "/", "/", "www.googleapis.com", "/", "drive", "/", "v3", "/">>,
   fallback |-> TRUE,
   dflt |-> <<"https://www.googleapis.com/auth/drive",
             "https://www.googleapis.com/auth/drive.appdata",
             "https://www.googleapis.com/auth/drive.file">>,
   tokArg |-> "self.scopes",
   prefix |-> <<"?", "oauth_token", "=", "{", "token", "}", "&", "fields", "=", "*">>,
   query |-> <<<<"count", "count", FALSE>>,
             <<"space", "space", FALSE>>>>,
   verb |-> "GET", header |-> "Content-Type", hval |-> "application/json",
   body |-> "none", resp |-> "buffered"]

FilesService_get ==
  [id |-> "FilesService::get", svc |-> "FilesService", params |-> FilesGetParams,
   payload |-> "", ret |-> "File",
   rel |-> <<"files", "/", "{", "fileId", "}">>, fmt |-> TRUE,
   args |-> <<<<"fileId", "file_id">>>>,
   base |-> <<"https", ":", "/", "/", "www.googleapis.com", "/", "drive", "/", "v3", "/">>,
   fallback |-> TRUE,
   dflt |-> <<"https://www.googleapis.com/auth/drive",
             "https://www.googleapis.com/auth/drive.appdata",
             "https://www.googleapis.com/auth/drive.file",
             "https://www.googleapis.com/auth/drive.metadata",
             "https://www.googleapis.com/auth/drive.metadata.readonly",
             "https://www.googleapis.com/auth/drive.photos.readonly",
             "https://www.googleapis.com/auth/drive.readonly">>,
   tokArg |-> "self.scopes",
   prefix |-> <<"?", "oauth_token", "=", "{", "token", "}", "&", "fields", "=", "*">>,
   query |-> <<<<"acknowledgeAbuse", "acknowledge_abuse", FALSE>>,
             <<"includePermissionsForView", "include_permissions_for_view", FALSE>>,
             <<"supportsAllDrives", "supports_all_drives", FALSE>>,
             <<"supportsTeamDrives", "supports_team_drives", FALSE>>>>,
   verb |-> "GET", header |-> "Content-Type", hval |-> "application/json",
   body |-> "none", resp |-> "buffered"]

FilesService_list ==
  [id |-> "FilesService::list", svc |-> "FilesService", params |-> FilesListParams,
   payload |-> "", ret |-> "FileList",
   rel |-> <<"files">>, fmt |-> TRUE,
   args |-> <<>>,
   base |-> <<"https", ":", "/", "/", "www.googleapis.com", "/", "drive", "/", "v3", "/">>,
   fallback |-> TRUE,
   dflt |-> <<"https://www.googleapis.com/auth/drive",
             "https://www.googleapis.com/auth/drive.appdata",
             "https://www.googleapis.com/auth/drive.file",
             "https://www.googleapis.com/auth/drive.metadata",
             "https://www.googleapis.com/auth/drive.metadata.readonly",
             "https://www.googleapis.com/auth/drive.photos.readonly",
             "https://www.googleapis.com/auth/drive.readonly">>,
   tokArg |-> "self.scopes",
   prefix |-> <<"?", "oauth_token", "=", "{", "token", "}", "&", "fields", "=", "*">>,
   query |-> <<<<"corpora", "corpora", FALSE>>,
             <<"corpus", "corpus", FALSE>>,
             <<"driveId", "drive_id", FALSE>>,
             <<"includeItemsFromAllDrives", "include_items_from_all_drives", FALSE>>,
             <<"includePermissionsForView", "include_permissions_for_view", FALSE>>,
             <<"includeTeamDriveItems", "include_team_drive_items", FALSE>>,
             <<"orderBy", "order_by", FALSE>>,
             <<"pageSize", "page_size", FALSE>>,
             <<"pageToken", "page_token", FALSE>>,
             <<"q", "q", FALSE>>,
             <<"spaces", "spaces", FALSE>>,
             <<"supportsAllDrives", "supports_all_drives", FALSE>>,
             <<"supportsTeamDrives", "supports_team_drives", FALSE>>,
             <<"teamDriveId", "team_drive_id", FALSE>>>>,
   verb |-> "GET", header |-> "Content-Type", hval |-> "application/json",
   body |-> "none", resp |-> "buffered"]

FilesService_update ==
  [id |-> "FilesService::update", svc |-> "FilesService", params |-> FilesUpdateParams,
   payload |-> "File", ret |-> "File",
   rel |-> <<"files", "/", "{", "fileId", "}">>, fmt |-> TRUE,
   args |-> <<<<"fileId", "file_id">>>>,
   base |-> <<"https", ":", "/", "/", "www.googleapis.com", "/", "drive", "/", "v3", "/">>,
   fallback |-> TRUE,
   dflt |-> <<"https://www.googleapis.com/auth/drive",
             "https://www.googleapis.com/auth/drive.appdata",
             "https://www.googleapis.com/auth/drive.file",
             "https://www.googleapis.com/auth/drive.metadata",
             "https://www.googleapis.com/auth/drive.scripts">>,
   tokArg |-> "self.scopes",
   prefix |-> <<"?", "oauth_token", "=", "{", "token", "}", "&", "fields", "=", "*">>,
   query |-> <<<<"addParents", "add_parents", FALSE>>,
             <<"enforceSingleParent", "enforce_single_parent", FALSE>>,
             <<"includePermissionsForView", "include_permissions_for_view", FALSE>>,
             <<"keepRevisionForever", "keep_revision_forever", FALSE>>,
             <<"ocrLanguage", "ocr_language", FALSE>>,
             <<"removeParents", "remove_parents", FALSE>>,
             <<"supportsAllDrives", "supports_all_drives", FALSE>>,
             <<"supportsTeamDrives", "supports_team_drives", FALSE>>,
             <<"useContentAsIndexableText", "use_content_as_indexable_text", FALSE>>>>,
   verb |-> "PATCH", header |-> "Content-Type", hval |-> "application/json",
   body |-> "json", resp |-> "buffered"]

FilesService_update_upload ==
  [id |-> "FilesService::update_upload", svc |-> "FilesService", params |-> FilesUpdateParams,
   payload |-> "Bytes", ret |-> "File",
   rel |-> <<"upload", "/", "drive", "/", "v3", "/", "files", "/", "{", "fileId", "}">>, fmt |-> FALSE,
   args |-> <<>>,
   base |-> <<"https", ":", "/", "/", "www.googleapis.com", "/">>,
   fallback |-> FALSE,
   dflt |-> <<>>,
   tokArg |-> "self.scopes",
   prefix |-> <<"?", "uploadType", "=", "media", "&", "oauth_token", "=", "{", "token", "}", "&", "fields", "=", "*">>,
   query |-> <<<<"addParents", "add_parents", FALSE>>,
             <<"enforceSingleParent", "enforce_single_parent", FALSE>>,
             <<"includePermissionsForView", "include_permissions_for_view", FALSE>>,
             <<"keepRevisionForever", "keep_revision_forever", FALSE>>,
             <<"ocrLanguage", "ocr_language", FALSE>>,
             <<"removeParents", "remove_parents", FALSE>>,
             <<"supportsAllDrives", "supports_all_drives", FALSE>>,
             <<"supportsTeamDrives", "supports_team_drives", FALSE>>,
             <<"useContentAsIndexableText", "use_content_as_indexable_text", FALSE>>>>,
   verb |-> "PATCH", header |-> "Content-Length", hval |-> "data.len()",
   body |-> "bytes", resp |-> "buffered"]

FilesService_watch ==
  [id |-> "FilesService::watch", svc |-> "FilesService", params |-> FilesWatchParams,
   payload |-> "Channel", ret |-> "Channel",
   rel |-> <<"files", "/", "{", "fileId", "}", "/", "watch">>, fmt |-> TRUE,
   args |-> <<<<"fileId", "file_id">>>>,
   base |-> <<"https", ":", "/", "/", "www.googleapis.com", "/", "drive", "/", "v3", "/">>,
   fallback |-> TRUE,
   dflt |-> <<"https://www.googleapis.com/auth/drive",
             "https://www.googleapis.com/auth/drive.appdata",
             "https://www.googleapis.com/auth/drive.file",
             "https://www.googleapis.com/auth/drive.metadata",
             "https://www.googleapis.com/auth/drive.metadata.readonly",
             "https://www.googleapis.com/auth/drive.photos.readonly",
             "https://www.googleapis.com/auth/drive.readonly">>,
   tokArg |-> "self.scopes",
   prefix |-> <<"?", "oauth_token", "=", "{", "token", "}", "&", "fields", "=", "*">>,
   query |-> <<<<"acknowledgeAbuse", "acknowledge_abuse", FALSE>>,
             <<"includePermissionsForView", "include_permissions_for_view", FALSE>>,
             <<"supportsAllDrives", "supports_all_drives", FALSE>>,
             <<"supportsTeamDrives", "supports_team_drives", FALSE>>>>,
   verb |-> "POST", header |-> "Content-Type", hval |-> "application/json",
   body |-> "json", resp |-> "buffered"]

PermissionsService_create ==
  [id |-> "PermissionsService::create", svc |-> "PermissionsService", params |-> PermissionsCreateParams,
   payload |-> "Permission", ret |-> "Permission",
   rel |-> <<"files", "/", "{", "fileId", "}", "/", "permissions">>, fmt |-> TRUE,
   args |-> <<<<"fileId", "file_id">>>>,
   base |-> <<"https", ":", "/", "/", "www.googleapis.com", "/", "drive", "/", "v3", "/">>,
   fallback |-> TRUE,
   dflt |-> <<"https://www.googleapis.com/auth/drive",
             "https://www.googleapis.com/auth/drive.file">>,
   tokArg |-> "self.scopes",
   prefix |-> <<"?", "oauth_token", "=", "{", "token", "}", "&", "fields", "=", "*">>,
   query |-> <<<<"emailMessage", "email_message", FALSE>>,
             <<"enforceSingleParent", "enforce_single_parent", FALSE>>,
             <<"moveToNewOwnersRoot", "move_to_new_owners_root", FALSE>>,
             <<"sendNotificationEmail", "send_notification_email", FALSE>>,
             <<"supportsAllDrives", "supports_all_drives", FALSE>>,
             <<"supportsTeamDrives", "supports_team_drives", FALSE>>,
             <<"transferOwnership", "transfer_ownership", FALSE>>,
             <<"useDomainAdminAccess", "use_domain_admin_access", FALSE>>>>,
   verb |-> "POST", header |-> "Content-Type", hval |-> "application/json",
   body |-> "json", resp |-> "buffered"]

PermissionsService_delete ==
  [id |-> "PermissionsService::delete", svc |-> "PermissionsService", params |-> PermissionsDeleteParams,
   payload |-> "", ret |-> "()",
   rel |-> <<"files", "/", "{", "fileId", "}", "/", "permissions", "/", "{", "permissionId", "}">>, fmt |-> TRUE,
   args |-> <<<<"fileId", "file_id">>, <<"permissionId", "permission_id">>>>,
   base |-> <<"https", ":", "/", "/", "www.googleapis.com", "/", "drive", "/", "v3", "/">>,
   fallback |-> TRUE,
   dflt |-> <<"https://www.googleapis.com/auth/drive",
             "https://www.googleapis.com/auth/drive.file">>,
   tokArg |-> "self.scopes",
   prefix |-> <<"?", "oauth_token", "=", "{", "token", "}", "&", "fields", "=", "*">>,
   query |-> <<<<"supportsAllDrives", "supports_all_drives", FALSE>>,
             <<"supportsTeamDrives", "supports_team_drives", FALSE>>,
             <<"useDomainAdminAccess", "use_domain_admin_access", FALSE>>>>,
   verb |-> "DELETE", header |-> "Content-Type", hval |-> "application/json",
   body |-> "none", resp |-> "buffered"]

PermissionsService_get ==
  [id |-> "PermissionsService::get", svc |-> "PermissionsService", params |-> PermissionsGetParams,
   payload |-> "", ret |-> "Permission",
   rel |-> <<"files", "/", "{", "fileId", "}", "/", "permissions", "/", "{", "permissionId", "}">>, fmt |-> TRUE,
   args |-> <<<<"fileId", "file_id">>, <<"permissionId", "permission_id">>>>,
   base |-> <<"https", ":", "/", "/", "www.googleapis.com", "/", "drive", "/", "v3", "/">>,
   fallback |-> TRUE,
   dflt |-> <<"https://www.googleapis.com/auth/drive",
             "https://www.googleapis.com/auth/drive.file",
             "https://www.googleapis.com/auth/drive.metadata",
             "https://www.googleapis.com/auth/drive.metadata.readonly",
             "https://www.googleapis.com/auth/drive.photos.readonly",
             "https://www.googleapis.com/auth/drive.readonly">>,
   tokArg |-> "self.scopes",
   prefix |-> <<"?", "oauth_token", "=", "{", "token", "}", "&", "fields", "=", "*">>,
   query |-> <<<<"supportsAllDrives", "supports_all_drives", FALSE>>,
             <<"supportsTeamDrives", "supports_team_drives", FALSE>>,
             <<"useDomainAdminAccess", "use_domain_admin_access", FALSE>>>>,
   verb |-> "GET", header |-> "Content-Type", hval |-> "application/json",
   body |-> "none", resp |-> "buffered"]

PermissionsService_list ==
  [id |-> "PermissionsService::list", svc |-> "PermissionsService", params |-> PermissionsListParams,
   payload |-> "", ret |-> "PermissionList",
   rel |-> <<"files", "/", "{", "fileId", "}", "/", "permissions">>, fmt |-> TRUE,
   args |-> <<<<"fileId", "file_id">>>>,
   base |-> <<"https", ":", "/", "/", "www.googleapis.com", "/", "drive", "/", "v3", "/">>,
   fallback |-> TRUE,
   dflt |-> <<"https://www.googleapis.com/auth/drive",
             "https://www.googleapis.com/auth/drive.file",
             "https://www.googleapis.com/auth/drive.metadata",
             "https://www.googleapis.com/auth/drive.metadata.readonly",
             "https://www.googleapis.com/auth/drive.photos.readonly",
             "https://www.googleapis.com/auth/drive.readonly">>,
   tokArg |-> "self.scopes",
   prefix |-> <<"?", "oauth_token", "=", "{", "token", "}", "&", "fields", "=", "*">>,
   query |-> <<<<"includePermissionsForView", "include_permissions_for_view", FALSE>>,
             <<"pageSize", "page_size", FALSE>>,
             <<"pageToken", "page_token", FALSE>>,
             <<"supportsAllDrives", "supports_all_drives", FALSE>>,
             <<"supportsTeamDrives", "supports_team_drives", FALSE>>,
             <<"useDomainAdminAccess", "use_domain_admin_access", FALSE>>>>,
   verb |-> "GET", header |-> "Content-Type", hval |-> "application/json",
   body |-> "none", resp |-> "buffered"]

PermissionsService_update ==
  [id |-> "PermissionsService::update", svc |-> "PermissionsService", params |-> PermissionsUpdateParams,
   payload |-> "Permission", ret |-> "Permission",
   rel |-> <<"files", "/", "{", "fileId", "}", "/", "permissions", "/", "{", "permissionId", "}">>, fmt |-> TRUE,
   args |-> <<<<"fileId", "file_id">>, <<"permissionId", "permission_id">>>>,
   base |-> <<"https", ":", "/", "/", "www.googleapis.com", "/", "drive", "/", "v3", "/">>,
   fallback |-> TRUE,
   dflt |-> <<"https://www.googleapis.com/auth/drive",
             "https://www.googleapis.com/auth/drive.file">>,
   tokArg |-> "self.scopes",
   prefix |-> <<"?", "oauth_token", "=", "{", "token", "}", "&", "fields", "=", "*">>,
   query |-> <<<<"removeExpiration", "remove_expiration", FALSE>>,
             <<"supportsAllDrives", "supports_all_drives", FALSE>>,
             <<"supportsTeamDrives", "supports_team_drives", FALSE>>,
             <<"transferOwnership", "transfer_ownership", FALSE>>,
             <<"useDomainAdminAccess", "use_domain_admin_access", FALSE>>>>,
   verb |-> "PATCH", header |-> "Content-Type", hval |-> "application/json",
   body |-> "json", resp |-> "buffered"]

RepliesService_create ==
  [id |-> "RepliesService::create", svc |-> "RepliesService", params |-> RepliesCreateParams,
   payload |-> "Reply", ret |-> "Reply",
   rel |-> <<"files", "/", "{", "fileId", "}", "/", "comments", "/", "{", "commentId", "}", "/", "replies">>, fmt |-> TRUE,
   args |-> <<<<"fileId", "file_id">>, <<"commentId", "comment_id">>>>,
   base |-> <<"https", ":", "/", "/", "www.googleapis.com", "/", "drive", "/", "v3", "/">>,
   fallback |-> TRUE,
   dflt |-> <<"https://www.googleapis.com/auth/drive",
             "https://www.googleapis.com/auth/drive.file">>,
   tokArg |-> "self.scopes",
   prefix |-> <<"?", "oauth_token", "=", "{", "token", "}", "&", "fields", "=", "*">>,
   query |-> <<>>,
   verb |-> "POST", header |-> "Content-Type", hval |-> "application/json",
   body |-> "json", resp |-> "buffered"]

RepliesService_delete ==
  [id |-> "RepliesService::delete", svc |-> "RepliesService", params |-> RepliesDeleteParams,
   payload |-> "", ret |-> "()",
   rel |-> <<"files", "/", "{", "fileId", "}", "/", "comments", "/", "{", "commentId", "}", "/", "replies", "/", "{", "replyId", "}">>, fmt |-> TRUE,
   args |-> <<<<"fileId", "file_id">>, <<"commentId", "comment_id">>, <<"replyId", "reply_id">>>>,
   base |-> <<"https", ":", "/", "/", "www.googleapis.com", "/", "drive", "/", "v3", "/">>,
   fallback |-> TRUE,
   dflt |-> <<"https://www.googleapis.com/auth/drive",
             "https://www.googleapis.com/auth/drive.file">>,
   tokArg |-> "self.scopes",
   prefix |-> <<"?", "oauth_token", "=", "{", "token", "}", "&", "fields", "=", "*">>,
   query |-> <<>>,
   verb |-> "DELETE", header |-> "Content-Type", hval |-> "application/json",
   body |-> "none", resp |-> "buffered"]

RepliesService_get ==
  [id |-> "RepliesService::get", svc |-> "RepliesService", params |-> RepliesGetParams,
   payload |-> "", ret |-> "Reply",
   rel |-> <<"files", "/", "{", "fileId", "}", "/", "comments", "/", "{", "commentId", "}", "/", "replies", "/", "{", "replyId", "}">>, fmt |-> TRUE,
   args |-> <<<<"fileId", "file_id">>, <<"commentId", "comment_id">>, <<"replyId", "reply_id">>>>,
   base |-> <<"https", ":", "/", "/", "www.googleapis.com", "/", "drive", "/", "v3", "/">>,
   fallback |-> TRUE,
   dflt |-> <<"https://www.googleapis.com/auth/drive",
             "https://www.googleapis.com/auth/drive.file",
             "https://www.googleapis.com/auth/drive.readonly">>,
   tokArg |-> "self.scopes",
   prefix |-> <<"?", "oauth_token", "=", "{", "token", "}", "&", "fields", "=", "*">>,
   query |-> <<<<"includeDeleted", "include_deleted", FALSE>>>>,
   verb |-> "GET", header |-> "Content-Type", hval |-> "application/json",
   body |-> "none", resp |-> "buffered"]

RepliesService_list ==
  [id |-> "RepliesService::list", svc |-> "RepliesService", params |-> RepliesListParams,
   payload |-> "", ret |-> "ReplyList",
   rel |-> <<"files", "/", "{", "fileId", "}", "/", "comments", "/", "{", "commentId", "}", "/", "replies">>, fmt |-> TRUE,
   args |-> <<<<"fileId", "file_id">>, <<"commentId", "comment_id">>>>,
   base |-> <<"https", ":", "/", "/", "www.googleapis.com", "/", "drive", "/", "v3", "/">>,
   fallback |-> TRUE,
   dflt |-> <<"https://www.googleapis.com/auth/drive",
             "https://www.googleapis.com/auth/drive.file",
             "https://www.googleapis.com/auth/drive.readonly">>,
   tokArg |-> "self.scopes",
   prefix |-> <<"?", "oauth_token", "=", "{", "token", "}", "&", "fields", "=", "*">>,
   query |-> <<<<"includeDeleted", "include_deleted", FALSE>>,
             <<"pageSize", "page_size", FALSE>>,
             <<"pageToken", "page_token", FALSE>>>>,
   verb |-> "GET", header |-> "Content-Type", hval |-> "application/json",
   body |-> "none", resp |-> "buffered"]

RepliesService_update ==
  [id |-> "RepliesService::update", svc |-> "RepliesService", params |-> RepliesUpdateParams,
   payload |-> "Reply", ret |-> "Reply",
   rel |-> <<"files", "/", "{", "fileId", "}", "/", "comments", "/", "{", "commentId", "}", "/", "replies", "/", "{", "replyId", "}">>, fmt |-> TRUE,
   args |-> <<<<"fileId", "file_id">>, <<"commentId", "comment_id">>, <<"replyId", "reply_id">>>>,
   base |-> <<"https", ":", "/", "/", "www.googleapis.com", "/", "drive", "/", "v3", "/">>,
   fallback |-> TRUE,
   dflt |-> <<"https://www.googleapis.com/auth/drive",
             "https://www.googleapis.com/auth/drive.file">>,
   tokArg |-> "self.scopes",
   prefix |-> <<"?", "oauth_token", "=", "{", "token", "}", "&", "fields", "=", "*">>,
   query |-> <<>>,
   verb |-> "PATCH", header |-> "Content-Type", hval |-> "application/json",
   body |-> "json", resp |-> "buffered"]

RevisionsService_delete ==
  [id |-> "RevisionsService::delete", svc |-> "RevisionsService", params |-> RevisionsDeleteParams,
   payload |-> "", ret |-> "()",
   rel |-> <<"files", "/", "{", "fileId", "}", "/", "revisions", "/", "{", "revisionId", "}">>, fmt |-> TRUE,
   args |-> <<<<"fileId", "file_id">>, <<"revisionId", "revision_id">>>>,
   base |-> <<"https", ":", "/", "/", "www.googleapis.com", "/", "drive", "/", "v3", "/">>,
   fallback |-> TRUE,
   dflt |-> <<"https://www.googleapis.com/auth/drive",
             "https://www.googleapis.com/auth/drive.appdata",
             "https://www.googleapis.com/auth/drive.file">>,
   tokArg |-> "self.scopes",
   prefix |-> <<"?", "oauth_token", "=", "{", "token", "}", "&", "fields", "=", "*">>,
   query |-> <<>>,
   verb |-> "DELETE", header |-> "Content-Type", hval |-> "application/json",
   body |-> "none", resp |-> "buffered"]

RevisionsService_get ==
  [id |-> "RevisionsService::get", svc |-> "RevisionsService", params |-> RevisionsGetParams,
   payload |-> "", ret |-> "Revision",
   rel |-> <<"files", "/", "{", "fileId", "}", "/", "revisions", "/", "{", "revisionId", "}">>, fmt |-> TRUE,
   args |-> <<<<"fileId", "file_id">>, <<"revisionId", "revision_id">>>>,
   base |-> <<"https", ":", "/", "/", "www.googleapis.com", "/", "drive", "/", "v3", "/">>,
   fallback |-> TRUE,
   dflt |-> <<"https://www.googleapis.com/auth/drive",
             "https://www.googleapis.com/auth/drive.appdata",
             "https://www.googleapis.com/auth/drive.file",
             "https://www.googleapis.com/auth/drive.metadata",
             "https://www.googleapis.com/auth/drive.metadata.readonly",
             "https://www.googleapis.com/auth/drive.photos.readonly",
             "https://www.googleapis.com/auth/drive.readonly">>,
   tokArg |-> "self.scopes",
   prefix |-> <<"?", "oauth_token", "=", "{", "token", "}", "&", "fields", "=", "*">>,
   query |-> <<<<"acknowledgeAbuse", "acknowledge_abuse", FALSE>>>>,
   verb |-> "GET", header |-> "Content-Type", hval |-> "application/json",
   body |-> "none", resp |-> "buffered"]

RevisionsService_list ==
  [id |-> "RevisionsService::list", svc |-> "RevisionsService", params |-> RevisionsListParams,
   payload |-> "", ret |-> "RevisionList",
   rel |-> <<"files", "/", "{", "fileId", "}", "/", "revisions">>, fmt |-> TRUE,
   args |-> <<<<"fileId", "file_id">>>>,
   base |-> <<"https", ":", "/", "/", "www.googleapis.com", "/", "drive", "/", "v3", "/">>,
   fallback |-> TRUE,
   dflt |-> <<"https://www.googleapis.com/auth/drive",
             "https://www.googleapis.com/auth/drive.appdata",
             "https://www.googleapis.com/auth/drive.file",
             "https://www.googleapis.com/auth/drive.metadata",
             "https://www.googleapis.com/auth/drive.metadata.readonly",
             "https://www.googleapis.com/auth/drive.photos.readonly",
             "https://www.googleapis.com/auth/drive.readonly">>,
   tokArg |-> "self.scopes",
   prefix |-> <<"?", "oauth_token", "=", "{", "token", "}", "&", "fields", "=", "*">>,
   query |-> <<<<"pageSize", "page_size", FALSE>>,
             <<"pageToken", "page_token", FALSE>>>>,
   verb |-> "GET", header |-> "Content-Type", hval |-> "application/json",
   body |-> "none", resp |-> "buffered"]

RevisionsService_update ==
  [id |-> "RevisionsService::update", svc |-> "RevisionsService", params |-> RevisionsUpdateParams,
   payload |-> "Revision", ret |-> "Revision",
   rel |-> <<"files", "/", "{", "fileId", "}", "/", "revisions", "/", "{", "revisionId", "}">>, fmt |-> TRUE,
   args |-> <<<<"fileId", "file_id">>, <<"revisionId", "revision_id">>>>,
   base |-> <<"https", ":", "/", "/", "www.googleapis.com", "/", "drive", "/", "v3", "/">>,
   fallback |-> TRUE,
   dflt |-> <<"https://www.googleapis.com/auth/drive",
             "https://www.googleapis.com/auth/drive.appdata",
             "https://www.googleapis.com/auth/drive.file">>,
   tokArg |-> "self.scopes",
   prefix |-> <<"?", "oauth_token", "=", "{", "token", "}", "&", "fields", "=", "*">>,
   query |-> <<>>,
   verb |-> "PATCH", header |-> "Content-Type", hval |-> "application/json",
   body |-> "json", resp |-> "buffered"]

TeamdrivesService_create ==
  [id |-> "TeamdrivesService::create", svc |-> "TeamdrivesService", params |-> TeamdrivesCreateParams,
   payload |-> "TeamDrive", ret |-> "TeamDrive",
   rel |-> <<"teamdrives">>, fmt |-> TRUE,
   args |-> <<>>,
   base |-> <<"https", ":", "/", "/", "www.googleapis.com", "/", "drive", "/", "v3", "/">>,
   fallback |-> TRUE,
   dflt |-> <<"https://www.googleapis.com/auth/drive">>,
   tokArg |-> "self.scopes",
   prefix |-> <<"?", "oauth_token", "=", "{", "token", "}", "&", "fields", "=", "*">>,
   query |-> <<<<"requestId", "request_id", TRUE>>>>,
   verb |-> "POST", header |-> "Content-Type", hval |-> "application/json",
   body |-> "json", resp |-> "buffered"]

TeamdrivesService_delete ==
  [id |-> "TeamdrivesService::delete", svc |-> "TeamdrivesService", params |-> TeamdrivesDeleteParams,
   payload |-> "", ret |-> "()",
   rel |-> <<"teamdrives", "/", "{", "teamDriveId", "}">>, fmt |-> TRUE,
   args |-> <<<<"teamDriveId", "team_drive_id">>>>,
   base |-> <<"https", ":", "/", "/", "www.googleapis.com", "/", "drive", "/", "v3", "/">>,
   fallback |-> TRUE,
   dflt |-> <<"https://www.googleapis.com/auth/drive">>,
   tokArg |-> "self.scopes",
   prefix |-> <<"?", "oauth_token", "=", "{", "token", "}", "&", "fields", "=", "*">>,
   query |-> <<>>,
   verb |-> "DELETE", header |-> "Content-Type", hval |-> "application/json",
   body |-> "none", resp |-> "buffered"]

TeamdrivesService_get ==
  [id |-> "TeamdrivesService::get", svc |-> "TeamdrivesService", params |-> TeamdrivesGetParams,
   payload |-> "", ret |-> "TeamDrive",
   rel |-> <<"teamdrives", "/", "{", "teamDriveId", "}">>, fmt |-> TRUE,
   args |-> <<<<"teamDriveId", "team_drive_id">>>>,
   base |-> <<"https", ":", "/", "/", "www.googleapis.com", "/", "drive", "/", "v3", "/">>,
   fallback |-> TRUE,
   dflt |-> <<"https://www.googleapis.com/auth/drive",
             "https://www.googleapis.com/auth/drive.readonly">>,
   tokArg |-> "self.scopes",
   prefix |-> <<"?", "oauth_token", "=", "{", "token", "}", "&", "fields", "=", "*">>,
   query |-> <<<<"useDomainAdminAccess", "use_domain_admin_access", FALSE>>>>,
   verb |-> "GET", header |-> "Content-Type", hval |-> "application/json",
   body |-> "none", resp |-> "buffered"]

TeamdrivesService_list ==
  [id |-> "TeamdrivesService::list", svc |-> "TeamdrivesService", params |-> TeamdrivesListParams,
   payload |-> "", ret |-> "TeamDriveList",
   rel |-> <<"teamdrives">>, fmt |-> TRUE,
   args |-> <<>>,
   base |-> <<"https", ":", "/", "/", "www.googleapis.com", "/", "drive", "/", "v3", "/">>,
   fallback |-> TRUE,
   dflt |-> <<"https://www.googleapis.com/auth/drive",
             "https://www.googleapis.com/auth/drive.readonly">>,
   tokArg |-> "self.scopes",
   prefix |-> <<"?", "oauth_token", "=", "{", "token", "}", "&", "fields", "=", "*">>,
   query |-> <<<<"pageSize", "page_size", FALSE>>,
             <<"pageToken", "page_token", FALSE>>,
             <<"q", "q", FALSE>>,
             <<"useDomainAdminAccess", "use_domain_admin_access", FALSE>>>>,
   verb |-> "GET", header |-> "Content-Type", hval |-> "application/json",
   body |-> "none", resp |-> "buffered"]

TeamdrivesService_update ==
  [id |-> "TeamdrivesService::update", svc |-> "TeamdrivesService", params |-> TeamdrivesUpdateParams,
   payload |-> "TeamDrive", ret |-> "TeamDrive",
   rel |-> <<"teamdrives", "/", "{", "teamDriveId", "}">>, fmt |-> TRUE,
   args |-> <<<<"teamDriveId", "team_drive_id">>>>,
   base |-> <<"https", ":", "/", "/", "www.googleapis.com", "/", "drive", "/", "v3", "/">>,
   fallback |-> TRUE,
   dflt |-> <<"https://www.googleapis.com/auth/drive">>,
   tokArg |-> "self.scopes",
   prefix |-> <<"?", "oauth_token", "=", "{", "token", "}", "&", "fields", "=", "*">>,
   query |-> <<<<"useDomainAdminAccess", "use_domain_admin_access", FALSE>>>>,
   verb |-> "PATCH", header |-> "Content-Type", hval |-> "application/json",
   body |-> "json", resp |-> "buffered"]

AllOps ==
  {AboutService_get,
   ChangesService_get_start_page_token,
   ChangesService_list,
   ChangesService_watch,
   ChannelsService_stop,
   CommentsService_create,
   CommentsService_delete,
   CommentsService_get,
   CommentsService_list,
   CommentsService_update,
   DrivesService_create,
   DrivesService_delete,
   DrivesService_get,
   DrivesService_hide,
   DrivesService_list,
   DrivesService_unhide,
   DrivesService_update,
   FilesService_copy,
   FilesService_create,
   FilesService_create_upload,
   FilesService_delete,
   FilesService_empty_trash,
   FilesService_export,
   FilesService_generate_ids,
   FilesService_get,
   FilesService_list,
   FilesService_update,
   FilesService_update_upload,
   FilesService_watch,
   PermissionsService_create,
   PermissionsService_delete,
   PermissionsService_get,
   PermissionsService_list,
   PermissionsService_update,
   RepliesService_create,
   RepliesService_delete,
   RepliesService_get,
   RepliesService_list,
   RepliesService_update,
   RevisionsService_delete,
   RevisionsService_get,
   RevisionsService_list,
   RevisionsService_update,
   TeamdrivesService_create,
   TeamdrivesService_delete,
   TeamdrivesService_get,
   TeamdrivesService_list,
   TeamdrivesService_update}
OpIds == {d.id : d \in AllOps}
Desc(id) == CHOOSE d \in AllOps : d.id = id
Services == {d.svc : d \in AllOps}

\* ---- Parameter values ----
\* A parameter struct value: its String (and set Option<String>) fields in
\* s, its set Option<bool> fields in b, its set Option<i32> fields in i.  An
\* Option field that is None is absent from the domain.
FieldType(P, f) == LET k == CHOOSE j \in 1..Len(P) : P[j][1] = f IN P[k][2]
Fields(P, ty) == {P[k][1] : k \in {j \in 1..Len(P) : P[j][2] = ty}}

PathFields(P) ==
  UNION {{d.args[k][2] : k \in 1..Len(d.args)} : d \in {x \in AllOps : x.params = P}}
\* The subsets of S with at most n elements.
RECURSIVE SmallSubsets(_, _)
SmallSubsets(S, n) ==
  IF n = 0 THEN {{}}
  ELSE LET less == SmallSubsets(S, n - 1)
       IN less \cup {X \cup {e} : X \in less, e \in S}

\* The values of one call: the field at position j of the struct takes the
\* value at position j + r of the list for its type, counted cyclically, so
\* that over the rotations r every field takes every value and fields next to
\* each other take different ones.
Rotations == {0, 1, 2}
Index(P, f) == CHOOSE j \in 1..Len(P) : P[j][1] = f
Pick(vals, P, f, r) == vals[((Index(P, f) + r) % Len(vals)) + 1]

ParamsOf(P) ==
  LET os == Fields(P, "Option<String>")
      ob == Fields(P, "Option<bool>")
      oi == Fields(P, "Option<i32>")
      chosen == SmallSubsets(os \cup ob \cup oi, MaxSet)
  IN {[s |-> [f \in Fields(P, "String") \cup (X \cap os) |->
                Pick(IF f \in PathFields(P) THEN PathVals ELSE StrVals, P, f, r)],
       b |-> [f \in X \cap ob |-> Pick(BoolVals, P, f, r)],
       i |-> [f \in X \cap oi |-> Pick(I32Vals, P, f, r)]] :
        X \in chosen, r \in Rotations}

NoParams == [s |-> <<>>, b |-> <<>>, i |-> <<>>]

\* `if let Some(ref val) = &params.f`
IsSome(P, params, f) ==
  CASE FieldType(P, f) = "Option<String>" -> f \in DOMAIN params.s
    [] FieldType(P, f) = "Option<bool>" -> f \in DOMAIN params.b
    [] FieldType(P, f) = "Option<i32>" -> f \in DOMAIN params.i
    [] OTHER -> TRUE

\* format!("{}", val).as_bytes()
Display(P, params, f) ==
  CASE FieldType(P, f) = "Option<bool>" -> FmtBool(params.b[f])
    [] FieldType(P, f) = "Option<i32>" -> FmtI32(params.i[f])
    [] OTHER -> params.s[f]

\* ---- Request payloads ----
\* A resource value sent as JSON is modelled by its id field and, where the
\* struct has one, one of its HashMap<String,String> fields; the bytes of an
\* upload are data.
MapField(ty) ==
  CASE ty = "File" -> "properties"
    [] ty = "Channel" -> "params"
    [] ty = "Revision" -> "exportLinks"
    [] OTHER -> ""

\* serde writes the fields of a struct in declaration order.
IdBeforeMap(ty) == ty # "Revision"

MapVals == {None, Some({"a"}), Some({"a", "b"})}
IdVals == {None, Some("f1")}
DataVals == {<<>>, <<97, 0, 255>>}
NoPayload == [id |-> None, map |-> None, data |-> <<>>]

PayloadsOf(ty) ==
  CASE ty = "" -> {NoPayload}
    [] ty = "Bytes" -> {[id |-> None, map |-> None, data |-> d] : d \in DataVals}
    [] OTHER -> {[id |-> x, map |-> m, data |-> <<>>] :
                   x \in IdVals,
                   m \in IF MapField(ty) = "" THEN {None} ELSE MapVals}

\* The orders in which a HashMap can hand out its keys.
KeyOrders(keys) ==
  {o \in [1..Cardinality(keys) -> keys] : \A x, y \in DOMAIN o : o[x] = o[y] => x = y}

PayloadOrders(payload) ==
  IF payload.map = None THEN {<<>>} ELSE KeyOrders(payload.map[1])

Quoted(w) == "\"" \o w \o "\""

RECURSIVE JsonEntries(_)
JsonEntries(order) ==
  IF order = <<>> THEN <<>>
  ELSE <<Quoted(Head(order)), ":", Quoted("1")>>
       \o (IF Len(order) > 1 THEN <<",">> ELSE <<>>)
       \o JsonEntries(Tail(order))

\* serde_json::to_string(req): None fields are skipped (skip_serializing_if).
to_string(ty, payload, order) ==
  LET idPart == IF payload.id = None THEN <<>>
                ELSE <<Quoted("id"), ":", Quoted(payload.id[1])>>
      mapPart == IF payload.map = None THEN <<>>
                 ELSE <<Quoted(MapField(ty)), ":", "{">> \o JsonEntries(order) \o <<"}">>
      comma == IF idPart # <<>> /\ mapPart # <<>> THEN <<",">> ELSE <<>>
  IN <<"{">>
     \o (IF IdBeforeMap(ty) THEN idPart \o comma \o mapPart
         ELSE mapPart \o comma \o idPart)
     \o <<"}">>

\* ---- Building the request ----
rel_path(d, params) ==
  IF d.fmt
  THEN Format(d.rel, [n \in {d.args[k][1] : k \in 1..Len(d.args)} |->
                        LET k == CHOOSE j \in 1..Len(d.args) : d.args[j][1] = n
                        IN Text(params.s[d.args[k][2]])])
  ELSE d.rel

\* A variant of path that leaves the template's placeholders as they are.
path_unresolved(d, params) == d.base \o d.rel

path(d, params) == d.base \o rel_path(d, params)

\* Variants of a block of the query builder: one that writes the entry of an
\* optional parameter whether it is set or not, one that leaves out an entry
\* whose value is the empty string.
QueryEntry_unconditional(d, params, k) ==
  LET q == d.query[k]
  IN <<"&", q[1], "=">>
     \o (IF q[3] \/ IsSome(d.params, params, q[2])
         THEN percent_encode(Display(d.params, params, q[2]))
         ELSE <<>>)

QueryEntry_skip_empty(d, params, k) ==
  LET q == d.query[k]
      value == Display(d.params, params, q[2])
  IN IF (q[3] \/ IsSome(d.params, params, q[2])) /\ value # <<>>
     THEN <<"&", q[1], "=">> \o percent_encode(value)
     ELSE <<>>

\* One block of the query builder: the k-th parameter of the operation.
QueryEntry(d, params, k) ==
  LET q == d.query[k]
      entry == <<"&", q[1], "=">> \o percent_encode(Display(d.params, params, q[2]))
  IN IF q[3] THEN entry
     ELSE IF IsSome(d.params, params, q[2]) THEN entry ELSE <<>>

\* A variant of QueryEntries that writes the entries with an empty value
\* after the others.
QueryEntries_empty_last(d, params, k) ==
  LET RECURSIVE Part(_, _)
      Part(j, empty) ==
        IF j = 0 THEN <<>>
        ELSE Part(j - 1, empty)
             \o (IF (Len(QueryEntry(d, params, j)) = 3) = empty
                 THEN QueryEntry(d, params, j) ELSE <<>>)
  IN Part(k, FALSE) \o Part(k, TRUE)

RECURSIVE QueryEntries(_, _, _)
QueryEntries(d, params, k) ==
  IF k = 0 THEN <<>>
  ELSE QueryEntries(d, params, k - 1) \o QueryEntry(d, params, k)

\* A variant of url_params whose fixed part is "?oauth_token={token}" alone.
url_params_token_only(d, params, token) ==
  <<"?", "oauth_token", "=", token>> \o QueryEntries(d, params, Len(d.query))

url_params(d, params, token) ==
  Format(d.prefix, [n \in {"token"} |-> <<token>>])
  \o QueryEntries(d, params, Len(d.query))

full_uri(d, params, token) == path(d, params) \o url_params(d, params, token)

body_str(d, payload, order) ==
  LET s == to_string(d.payload, payload, order)
  IN IF s = <<"null">> THEN <<>> ELSE s

RequestBody(d, payload, order) ==
  CASE d.body = "json" -> body_str(d, payload, order)
    [] d.body = "bytes" -> Text(payload.data)
    [] OTHER -> <<>>

\* Variants of RequestHeader: one that gives every request the JSON content
\* type, one that gives a request without a body no header.
RequestHeader_json(d, payload) ==
  [name |-> "Content-Type", value |-> <<"application/json">>]

RequestHeader_if_body(d, payload) ==
  IF d.header = "Content-Length"
  THEN [name |-> d.header, value |-> Text(FmtNat(Len(payload.data)))]
  ELSE IF d.body = "none" THEN [name |-> "", value |-> <<>>]
  ELSE [name |-> d.header, value |-> <<d.hval>>]

RequestHeader(d, payload) ==
  IF d.header = "Content-Length"
  THEN [name |-> d.header, value |-> Text(FmtNat(Len(payload.data)))]
  ELSE [name |-> d.header, value |-> <<d.hval>>]

BuildRequest(d, params, payload, token, order) ==
  [uri |-> full_uri(d, params, token),
   method |-> d.verb,
   header |-> RequestHeader(d, payload),
   body |-> RequestBody(d, payload, order)]

\* ---- Scopes ----
\* The local `scopes` of an operation: the stored list, or the operation's
\* own list when the stored one is empty.  The upload variants have no such
\* local.
LocalScopes(d, stored) ==
  IF d.fallback /\ stored = <<>> THEN d.dflt ELSE stored

\* The argument of authenticator.token(..).
TokenScopes(d, stored) ==
  IF d.tokArg = "self.scopes" THEN stored ELSE LocalScopes(d, stored)

\* ---- Interpreting the response ----
\* A variant of is_success that lets redirections through.
is_success_or_redirect(status) == status >= 200 /\ status < 400

\* hyper::StatusCode::is_success
is_success(status) == status >= 200 /\ status < 300

\* Results: Ok(value) or Err(error).  The value of a decoded struct is the
\* set of <<key, value>> members it kept; Ok(()) keeps nothing.
Ok(v) == [ok |-> TRUE, err |-> "", status |-> 0, value |-> v]
Err(e) == [ok |-> FALSE, err |-> e, status |-> 0, value |-> {}]
HTTPError(status) ==
  [ok |-> FALSE, err |-> "ApiError::HTTPError", status |-> status, value |-> {}]
NoResult == [ok |-> FALSE, err |-> "", status |-> 0, value |-> {}]

\* Response bodies the transport may deliver, as lexemes; <FF> and <C0> are
\* bytes that no UTF-8 text contains.
JsonStrings == {Quoted("id"), Quoted("kind"), Quoted("other"), Quoted("abc")}
JsonScalars == JsonStrings \cup {"7", "true", "null"}
InvalidUtf8 == {Chr(255), Chr(192)}

Bodies ==
  {<<>>,
   <<"null">>,
   <<"{", "}">>,
   <<"{", Quoted("id"), ":", Quoted("abc"), "}">>,
   <<"{", Quoted("kind"), ":", Quoted("abc"), ",", Quoted("other"), ":", "7", "}">>,
   <<"{", Quoted("kind"), ":", "7", "}">>,
   <<"{", Quoted("id"), ":">>,
   <<"{", Quoted("id"), ":", Quoted("abc"), "}", "}">>,
   <<"{", Quoted("id"), ":", Chr(255), "}">>}

\* String::from_utf8
from_utf8_ok(body) == \A k \in 1..Len(body) : body[k] \notin InvalidUtf8

\* The members of a JSON object of scalar members, read from position i (the
\* first key); <<FALSE, ..>> when the text is not such an object or
\* characters follow it.
RECURSIVE ParseMembers(_, _, _)
ParseMembers(t, i, acc) ==
  IF i + 3 <= Len(t) /\ t[i] \in JsonStrings /\ t[i + 1] = ":" /\ t[i + 2] \in JsonScalars
  THEN IF t[i + 3] = "}" THEN <<i + 3 = Len(t), Append(acc, <<t[i], t[i + 2]>>)>>
       ELSE IF t[i + 3] = "," THEN ParseMembers(t, i + 4, Append(acc, <<t[i], t[i + 2]>>))
       ELSE <<FALSE, <<>>>>
  ELSE <<FALSE, <<>>>>

ParseObject(t) ==
  IF t = <<"{", "}">> THEN <<TRUE, <<>>>>
  ELSE IF Len(t) >= 1 /\ t[1] = "{" THEN ParseMembers(t, 2, <<>>)
  ELSE <<FALSE, <<>>>>

\* The fields of the response structs among the keys the bodies use: every
\* struct has kind, the resource structs have id; both are Option<String>.
StructFields(ty) ==
  IF ty \in {"Channel", "Comment", "Drive", "File", "Permission", "Reply",
             "Revision", "TeamDrive"}
  THEN {Quoted("id"), Quoted("kind")}
  ELSE {Quoted("kind")}

\* serde_json::from_str::<T>(text) for T = () and for the response structs.
from_str(ty, t) ==
  IF ty = "()" THEN (IF t = <<"null">> THEN Ok({}) ELSE Err("serde_json::Error"))
  ELSE LET p == ParseObject(t)
           ms == p[2]
           known == {k \in 1..Len(ms) : ms[k][1] \in StructFields(ty)}
       IN IF ~p[1] THEN Err("serde_json::Error")
          ELSE IF \E k \in known : ms[k][2] \notin JsonStrings \cup {"null"}
               THEN Err("serde_json::Error")
          ELSE IF \E j, k \in known : j # k /\ ms[j][1] = ms[k][1]
               THEN Err("serde_json::Error")
          ELSE Ok({ms[k] : k \in {j \in known : ms[j][2] # "null"}})

\* A variant of Decode that takes an empty body for the default value.
Decode_empty_is_default(ty, body) ==
  IF body = <<>> THEN Ok({})
  ELSE IF ~from_utf8_ok(body) THEN Err("FromUtf8Error") ELSE from_str(ty, body)

\* to_bytes succeeded: String::from_utf8(..)?, serde_json::from_str(..)?, Ok(decoded)
Decode(ty, body) ==
  IF ~from_utf8_ok(body) THEN Err("FromUtf8Error") ELSE from_str(ty, body)

Statuses == {199, 200, 204, 299, 300, 404, 500}
ChunkVals == {<<97, 98>>, <<99>>, <<255, 123>>}

\* ---- State ----
VARIABLES
  service,    \* which service struct the object is
  scopes,     \* its field scopes: Vec<String>
  setArg,     \* the argument of the last set_scopes call (<<>> before any)
  pc,         \* where the one call in progress stands
  call,       \* the operation called and its arguments
  authReq,    \* Some(scopes) while authenticator.token(scopes) is awaited
  tok,        \* Some(token) once the authenticator has answered
  request,    \* Some(request) while client.request(request) is awaited
  resp,       \* the response: its status and the body the transport holds
  bodyRead,   \* whether the call has started to read the response body
  items,      \* export: the results of the chunks mapped so far
  writes,     \* export: the dst.write calls made, with what each returned
  result,     \* what the call returns
  trace,      \* what the call has asked of its collaborators and been handed
              \* by the body stream so far; after a drop, that it was dropped
  peer        \* a call on another service object that holds clones of the
              \* same authenticator and client

vars == <<service, scopes, setArg, pc, call, authReq, tok, request, resp,
          bodyRead, items, writes, result, trace, peer>>

NoCall == [op |-> "", params |-> NoParams, payload |-> NoPayload]
NoResp == [status |-> 0, body |-> <<>>]
NoRequest == None

Init ==
  /\ service \in Services
  /\ scopes = <<>>
  /\ setArg = <<>>
  /\ pc = "idle"
  /\ call = NoCall
  /\ authReq = None
  /\ tok = None
  /\ request = NoRequest
  /\ resp = NoResp
  /\ bodyRead = FALSE
  /\ items = <<>>
  /\ writes = <<>>
  /\ result = NoResult
  /\ trace = <<>>
  /\ peer = [pc |-> "idle", tok |-> None]

\* ---- Operations ----
\* A variant of set_scopes that extends the stored list.
set_scopes_extend(S) ==
  /\ pc = "idle"
  /\ scopes' = scopes \o [k \in 1..Len(S) |-> S[k]]
  /\ setArg' = S
  /\ UNCHANGED <<trace, peer, service, pc, call, authReq, tok, request, resp, bodyRead,
                 items, writes, result>>

\* set_scopes: needs &mut self, so no call of this service is in progress.
set_scopes(S) ==
  /\ pc = "idle"
  /\ scopes' = [k \in 1..Len(S) |-> S[k]]
  /\ setArg' = S
  /\ UNCHANGED <<trace, peer, service, pc, call, authReq, tok, request, resp, bodyRead,
                 items, writes, result>>

\* A variant of Call that stores the scopes it fell back to in the service.
Call_stores_default(d, params, payload) ==
  /\ pc = "idle"
  /\ d.svc = service
  /\ call' = [op |-> d.id, params |-> params, payload |-> payload]
  /\ authReq' = Some(TokenScopes(d, scopes))
  /\ pc' = "token"
  /\ scopes' = LocalScopes(d, scopes)
  /\ trace' = <<[ev |-> "token", data |-> <<>>]>>
  /\ UNCHANGED <<peer, service, setArg, tok, request, resp, bodyRead, items,
                 writes, result>>

\* An operation up to its first await: authenticator.token(..).
Call(d, params, payload) ==
  /\ pc = "idle"
  /\ d.svc = service
  /\ call' = [op |-> d.id, params |-> params, payload |-> payload]
  /\ authReq' = Some(TokenScopes(d, scopes))
  /\ pc' = "token"
  /\ trace' = <<[ev |-> "token", data |-> <<>>]>>
  /\ UNCHANGED <<peer, service, scopes, setArg, tok, request, resp, bodyRead, items,
                 writes, result>>

\* Variants of TokenErr: one that asks the authenticator once more, one that
\* goes on to send the request without a token.
TokenErr_retry ==
  /\ pc = "token"
  /\ Len(trace) < 3
  /\ trace' = Append(trace, [ev |-> "token", data |-> <<>>])
  /\ UNCHANGED <<peer, service, scopes, setArg, pc, call, authReq, tok, request, resp,
                 bodyRead, items, writes, result>>

TokenErr_ignored ==
  /\ pc = "token"
  /\ authReq' = None
  /\ request' = Some(BuildRequest(Desc(call.op), call.params, call.payload, "",
                                  CHOOSE order \in PayloadOrders(call.payload) : TRUE))
  /\ pc' = "sent"
  /\ trace' = Append(trace, [ev |-> "request", data |-> <<>>])
  /\ UNCHANGED <<peer, service, scopes, setArg, call, tok, resp, bodyRead, items,
                 writes, result>>

\* The authenticator fails: `?` returns its error.
TokenErr ==
  /\ pc = "token"
  /\ authReq' = None
  /\ result' = Err("yup_oauth2::Error")
  /\ pc' = "done"
  /\ UNCHANGED <<trace, peer, service, scopes, setArg, call, tok, request, resp, bodyRead,
                 items, writes>>

\* A variant of TokenOk that builds the request with a token it got on an
\* earlier call and kept.
TokenOk_stale_token(token, order) ==
  /\ pc = "token"
  /\ order \in PayloadOrders(call.payload)
  /\ authReq' = None
  /\ tok' = Some(token)
  /\ request' = Some(BuildRequest(Desc(call.op), call.params, call.payload, "ya29.A", order))
  /\ pc' = "sent"
  /\ trace' = Append(trace, [ev |-> "request", data |-> <<>>])
  /\ UNCHANGED <<peer, service, scopes, setArg, call, resp, bodyRead, items, writes,
                 result>>

\* A variant of TokenOk that builds the request with the token last handed
\* out through the shared authenticator, whichever call asked for it.
TokenOk_shared_token(token, order) ==
  /\ pc = "token"
  /\ order \in PayloadOrders(call.payload)
  /\ authReq' = None
  /\ tok' = Some(token)
  /\ request' = Some(BuildRequest(Desc(call.op), call.params, call.payload,
                                  IF peer.tok # None THEN peer.tok[1] ELSE token, order))
  /\ pc' = "sent"
  /\ trace' = Append(trace, [ev |-> "request", data |-> <<>>])
  /\ UNCHANGED <<peer, service, scopes, setArg, call, resp, bodyRead, items, writes,
                 result>>

\* The authenticator answers: the URL and the request are built and the
\* request is handed to the client.
TokenOk(token, order) ==
  /\ pc = "token"
  /\ order \in PayloadOrders(call.payload)
  /\ authReq' = None
  /\ tok' = Some(token)
  /\ request' = Some(BuildRequest(Desc(call.op), call.params, call.payload, token, order))
  /\ pc' = "sent"
  /\ trace' = Append(trace, [ev |-> "request", data |-> <<>>])
  /\ UNCHANGED <<peer, service, scopes, setArg, call, resp, bodyRead, items, writes,
                 result>>

\* The client takes the request off the call's hands and puts it on the wire.
\* The arguments and the request are not used by the call past this point.
Transmit ==
  /\ pc = "sent"
  /\ call' = [NoCall EXCEPT !.op = call.op]
  /\ tok' = None
  /\ request' = NoRequest
  /\ pc' = "wait"
  /\ UNCHANGED <<trace, peer, service, scopes, setArg, authReq, resp, bodyRead, items, writes,
                 result>>

\* client.request(..) fails.
TransportErr ==
  /\ pc = "wait"
  /\ result' = Err("hyper::Error")
  /\ pc' = "done"
  /\ UNCHANGED <<trace, peer, service, scopes, setArg, call, authReq, tok, request, resp,
                 bodyRead, items, writes>>

\* A variant of Respond that hands the body of any response to the stream.
Respond_any_status(status, body) ==
  /\ pc = "wait"
  /\ resp' = [status |-> status, body |-> body]
  /\ result' = result
  /\ pc' = IF Desc(call.op).resp = "stream" THEN "stream" ELSE "body"
  /\ UNCHANGED <<trace, peer, service, scopes, setArg, call, authReq, tok, request, bodyRead,
                 items, writes>>

\* client.request(..) returns a response.
Respond(status, body) ==
  /\ pc = "wait"
  /\ resp' = [status |-> status, body |-> body]
  /\ IF ~is_success(status)
     THEN /\ result' = HTTPError(status)
          /\ pc' = "done"
     ELSE /\ result' = result
          /\ pc' = IF Desc(call.op).resp = "stream" THEN "stream" ELSE "body"
  /\ UNCHANGED <<trace, peer, service, scopes, setArg, call, authReq, tok, request, bodyRead,
                 items, writes>>

\* hyper::body::to_bytes(..) fails.
BodyErr ==
  /\ pc = "body"
  /\ bodyRead' = TRUE
  /\ result' = Err("hyper::Error")
  /\ pc' = "done"
  /\ UNCHANGED <<trace, peer, service, scopes, setArg, call, authReq, tok, request, resp,
                 items, writes>>

\* hyper::body::to_bytes(..) returns the body, which is decoded.
BodyOk ==
  /\ pc = "body"
  /\ bodyRead' = TRUE
  /\ result' = Decode(Desc(call.op).ret, resp.body)
  /\ pc' = "done"
  /\ UNCHANGED <<trace, peer, service, scopes, setArg, call, authReq, tok, request, resp,
                 items, writes>>

\* A variant of StreamChunk whose sink sees the newest chunk first.
StreamChunk_newest_first(chunk, accepted, failed) ==
  /\ pc = "stream"
  /\ Len(items) < MaxChunks
  /\ accepted \in 0..Len(chunk)
  /\ failed => accepted = 0
  /\ bodyRead' = TRUE
  /\ writes' = <<[data |-> chunk, accepted |-> accepted, failed |-> failed]>> \o writes
  /\ items' = Append(items, Ok({}))
  /\ trace' = Append(trace, [ev |-> "chunk", data |-> chunk])
  /\ UNCHANGED <<peer, service, scopes, setArg, pc, call, authReq, tok, request, resp,
                 result>>

\* export: the body stream yields a chunk, which the closure hands to
\* dst.write; what write returns (n bytes accepted, or an error) is dropped.
StreamChunk(chunk, accepted, failed) ==
  /\ pc = "stream"
  /\ Len(items) < MaxChunks
  /\ accepted \in 0..Len(chunk)
  /\ failed => accepted = 0
  /\ bodyRead' = TRUE
  /\ writes' = Append(writes, [data |-> chunk, accepted |-> accepted, failed |-> failed])
  /\ items' = Append(items, Ok({}))
  /\ trace' = Append(trace, [ev |-> "chunk", data |-> chunk])
  /\ UNCHANGED <<peer, service, scopes, setArg, pc, call, authReq, tok, request, resp,
                 result>>

\* export: the body stream yields an error: `chunk?` ends the closure.
StreamChunkErr(e) ==
  /\ pc = "stream"
  /\ Len(items) < MaxChunks
  /\ bodyRead' = TRUE
  /\ items' = Append(items, Err(e))
  /\ trace' = Append(trace, [ev |-> "chunk error", data |-> <<>>])
  /\ UNCHANGED <<peer, service, scopes, setArg, pc, call, authReq, tok, request, resp,
                 writes, result>>

\* A variant of StreamEnd that returns the last Err collected.
StreamEnd_last_error ==
  /\ pc = "stream"
  /\ bodyRead' = TRUE
  /\ result' = IF \E k \in 1..Len(items) : ~items[k].ok
               THEN items[CHOOSE k \in 1..Len(items) :
                            ~items[k].ok /\ \A j \in (k + 1)..Len(items) : items[j].ok]
               ELSE Ok({})
  /\ pc' = "done"
  /\ UNCHANGED <<trace, peer, service, scopes, setArg, call, authReq, tok, request, resp,
                 items, writes>>

\* A variant of StreamEnd that goes on waiting for chunks.
StreamEnd_never ==
  /\ pc = "stream"
  /\ UNCHANGED vars

\* A variant of StreamEnd that ends like the buffered operations: with the
\* body decoded as JSON.
StreamEnd_decode ==
  /\ pc = "stream"
  /\ bodyRead' = TRUE
  /\ result' = IF \E k \in 1..Len(items) : ~items[k].ok
               THEN items[CHOOSE k \in 1..Len(items) :
                            ~items[k].ok /\ \A j \in 1..(k - 1) : items[j].ok]
               ELSE Decode("()", resp.body)
  /\ pc' = "done"
  /\ UNCHANGED <<trace, peer, service, scopes, setArg, call, authReq, tok, request, resp,
                 items, writes>>

\* export: the stream ends; the first Err among the collected results is
\* returned, else Ok(()).
StreamEnd ==
  /\ pc = "stream"
  /\ bodyRead' = TRUE
  /\ result' = IF \E k \in 1..Len(items) : ~items[k].ok
               THEN items[CHOOSE k \in 1..Len(items) :
                            ~items[k].ok /\ \A j \in 1..(k - 1) : items[j].ok]
               ELSE Ok({})
  /\ pc' = "done"
  /\ UNCHANGED <<trace, peer, service, scopes, setArg, call, authReq, tok, request, resp,
                 items, writes>>

\* The caller takes the result; the locals of the call are gone.
Return ==
  /\ pc = "done"
  /\ pc' = "idle"
  /\ call' = NoCall
  /\ resp' = NoResp
  /\ bodyRead' = FALSE
  /\ items' = <<>>
  /\ writes' = <<>>
  /\ result' = NoResult
  /\ trace' = <<>>
  /\ UNCHANGED <<peer, service, scopes, setArg, authReq, tok, request>>

\* The caller drops the future of the call at one of its awaits: of the
\* token, of the response, of the body, of the next chunk.  The locals of the
\* call are gone; the fields of the service are not touched.
Cancel_clears_scopes ==
  /\ pc \in {"token", "sent", "wait", "body", "stream"}
  /\ pc' = "idle"
  /\ scopes' = <<>>
  /\ call' = NoCall
  /\ authReq' = None
  /\ tok' = None
  /\ request' = NoRequest
  /\ resp' = NoResp
  /\ bodyRead' = FALSE
  /\ items' = <<>>
  /\ writes' = <<>>
  /\ result' = NoResult
  /\ trace' = <<[ev |-> "dropped", data |-> <<>>]>>
  /\ UNCHANGED <<peer, service, setArg>>

Cancel ==
  /\ pc \in {"token", "sent", "wait", "body", "stream"}
  /\ pc' = "idle"
  /\ call' = NoCall
  /\ authReq' = None
  /\ tok' = None
  /\ request' = NoRequest
  /\ resp' = NoResp
  /\ bodyRead' = FALSE
  /\ items' = <<>>
  /\ writes' = <<>>
  /\ result' = NoResult
  /\ trace' = <<[ev |-> "dropped", data |-> <<>>]>>
  /\ UNCHANGED <<peer, service, scopes, setArg>>

\* A call on another service object built from clones of the same
\* authenticator and client: it runs the same code on its own fields and
\* locals.  Of that call only its position and its token are kept.
PeerCall ==
  /\ peer.pc = "idle"
  /\ peer' = [pc |-> "token", tok |-> None]
  /\ UNCHANGED <<service, scopes, setArg, pc, call, authReq, tok, request, resp,
                 bodyRead, items, writes, result, trace>>

PeerTokenErr ==
  /\ peer.pc = "token"
  /\ peer' = [pc |-> "idle", tok |-> None]
  /\ UNCHANGED <<service, scopes, setArg, pc, call, authReq, tok, request, resp,
                 bodyRead, items, writes, result, trace>>

PeerTokenOk(token) ==
  /\ peer.pc = "token"
  /\ peer' = [pc |-> "wait", tok |-> Some(token)]
  /\ UNCHANGED <<service, scopes, setArg, pc, call, authReq, tok, request, resp,
                 bodyRead, items, writes, result, trace>>

PeerReturn ==
  /\ peer.pc = "wait"
  /\ peer' = [pc |-> "idle", tok |-> None]
  /\ UNCHANGED <<service, scopes, setArg, pc, call, authReq, tok, request, resp,
                 bodyRead, items, writes, result, trace>>

Next ==
  \/ \E S \in ScopeArgs : set_scopes(S)
  \/ /\ pc = "idle"
     /\ \E d \in {x \in AllOps : x.svc = service} : \E params \in ParamsOf(d.params) :
          \E payload \in PayloadsOf(d.payload) : Call(d, params, payload)
  \/ TokenErr
  \/ \E token \in Tokens : \E order \in PayloadOrders(call.payload) : TokenOk(token, order)
  \/ Transmit
  \/ TransportErr
  \/ \E status \in Statuses : \E body \in Bodies : Respond(status, body)
  \/ BodyErr
  \/ BodyOk
  \/ \E chunk \in ChunkVals : \E n \in 0..Len(chunk) : \E failed \in BOOLEAN :
       StreamChunk(chunk, n, failed)
  \/ \E e \in {"hyper::Error(Body)", "hyper::Error(IncompleteMessage)"} : StreamChunkErr(e)
  \/ StreamEnd
  \/ Return
  \/ Cancel

\* Two calls in progress at once: one on this service, one on the peer.  The
\* calls of this service are those that set no optional parameter.
NextPair ==
  \/ \E S \in ScopeArgs : set_scopes(S)
  \/ /\ pc = "idle"
     /\ \E d \in {x \in AllOps : x.svc = service} : \E params \in {p \in ParamsOf(d.params) :
                                             DOMAIN p.b = {} /\ DOMAIN p.i = {}
                                             /\ DOMAIN p.s = Fields(d.params, "String")} :
          \E payload \in PayloadsOf(d.payload) : Call(d, params, payload)
  \/ TokenErr
  \/ \E token \in Tokens : \E order \in PayloadOrders(call.payload) : TokenOk(token, order)
  \/ Transmit
  \/ TransportErr
  \/ \E status \in Statuses : \E body \in Bodies : Respond(status, body)
  \/ BodyErr
  \/ BodyOk
  \/ \E chunk \in ChunkVals : \E n \in 0..Len(chunk) : \E failed \in BOOLEAN :
       StreamChunk(chunk, n, failed)
  \/ \E e \in {"hyper::Error(Body)", "hyper::Error(IncompleteMessage)"} : StreamChunkErr(e)
  \/ StreamEnd
  \/ Return
  \/ PeerCall
  \/ PeerTokenErr
  \/ \E token \in Tokens : PeerTokenOk(token)
  \/ PeerReturn

Spec == Init /\ [][Next]_vars
SpecPair == Init /\ [][NextPair]_vars

\* One call after another, each answered in the end: the authenticator
\* answers, the client sends and the transport answers, the body arrives or
\* fails, the body stream ends.  The calls are those that set no optional
\* parameter.
NextLive ==
  \/ /\ pc = "idle"
     /\ \E d \in {x \in AllOps : x.svc = service} : \E params \in {p \in ParamsOf(d.params) :
                                             DOMAIN p.b = {} /\ DOMAIN p.i = {}
                                             /\ DOMAIN p.s = Fields(d.params, "String")} :
          \E payload \in PayloadsOf(d.payload) : Call(d, params, payload)
  \/ TokenErr
  \/ \E token \in Tokens : \E order \in PayloadOrders(call.payload) : TokenOk(token, order)
  \/ Transmit
  \/ TransportErr
  \/ \E status \in Statuses : \E body \in Bodies : Respond(status, body)
  \/ BodyErr
  \/ BodyOk
  \/ \E chunk \in ChunkVals : \E n \in 0..Len(chunk) : \E failed \in BOOLEAN :
       StreamChunk(chunk, n, failed)
  \/ \E e \in {"hyper::Error(Body)", "hyper::Error(IncompleteMessage)"} : StreamChunkErr(e)
  \/ StreamEnd
  \/ Return

SpecLive ==
  /\ Init /\ [][NextLive]_vars
  /\ WF_vars(TokenErr \/ \E token \in Tokens : \E order \in PayloadOrders(call.payload) :
                            TokenOk(token, order))
  /\ WF_vars(Transmit)
  /\ WF_vars(TransportErr \/ \E status \in Statuses : \E body \in Bodies : Respond(status, body))
  /\ WF_vars(BodyErr \/ BodyOk)
  /\ WF_vars(StreamEnd)

\* ---- What the properties below talk about ----
Cur == Desc(call.op)
Req == request[1]

\* The scope list an operation hard-codes.
DefaultScopes(d) == d.dflt

\* The field of a parameter struct whose serde name is w.
FieldNamed(P, w) == LET k == CHOOSE j \in 1..Len(P) : P[j][3] = w IN P[k][1]

\* The path template with every {placeholder} replaced by the value of the
\* path parameter of that name.
ResolvedPath(d, params) ==
  Format(d.rel, [w \in {d.params[k][3] : k \in {j \in 1..Len(d.params) : d.params[j][2] = "String"}} |->
                   Text(params.s[FieldNamed(d.params, w)])])

\* Whether the caller set the field.
Given(params, f) == f \in (DOMAIN params.s) \cup (DOMAIN params.b) \cup (DOMAIN params.i)

IsUpload(d) == d.id \in {"FilesService::create_upload", "FilesService::update_upload"}

\* The query part of a URL: everything from its first "?".
QueryPart(uri) ==
  IF \E k \in 1..Len(uri) : uri[k] = "?"
  THEN SubSeq(uri, CHOOSE k \in 1..Len(uri) : uri[k] = "?" /\ \A j \in 1..(k - 1) : uri[j] # "?",
              Len(uri))
  ELSE <<>>

\* The positions in a query part where an entry starts, and how often an
\* entry of a given name occurs.
EntryStarts(q) == {k \in 1..Len(q) : q[k] \in {"?", "&"}}
Occurrences(q, name) ==
  Cardinality({k \in EntryStarts(q) : k + 2 <= Len(q) /\ q[k + 1] = name /\ q[k + 2] = "="})

\* The value of the first entry of that name: the lexemes after "name=" up
\* to the next "&".
EntryValue(q, name) ==
  LET k == CHOOSE j \in EntryStarts(q) :
             /\ j + 2 <= Len(q) /\ q[j + 1] = name /\ q[j + 2] = "="
             /\ \A h \in EntryStarts(q) :
                  (h + 2 <= Len(q) /\ q[h + 1] = name /\ q[h + 2] = "=") => j <= h
      later == {j \in EntryStarts(q) : j > k}
      stop == IF later = {} THEN Len(q) + 1
              ELSE CHOOSE j \in later : \A h \in later : j <= h
  IN SubSeq(q, k + 3, stop - 1)

\* The bytes a query parameter stands for: the Display form of its value.
ValueBytes(d, params, f) == Display(d.params, params, f)

\* The entries the caller's parameters call for, in the operation's order.
RECURSIVE ExpectedEntries(_, _, _)
ExpectedEntries(d, params, k) ==
  IF k = 0 THEN <<>>
  ELSE ExpectedEntries(d, params, k - 1)
       \o (IF d.query[k][3] \/ Given(params, d.query[k][2])
           THEN <<"&", d.query[k][1], "=">> \o percent_encode(ValueBytes(d, params, d.query[k][2]))
           ELSE <<>>)

FixedEntries(token) == <<"oauth_token", "=", token, "&", "fields", "=", "*">>

\* The inverse of percent-encoding, on lexemes.
Ord(c) == CHOOSE b \in 32..126 : Printable[b - 31] = c
HexVal(c) == CHOOSE n \in 0..15 : HexDigits[n + 1] = c
RECURSIVE PercentDecode(_)
PercentDecode(v) ==
  IF v = <<>> THEN <<>>
  ELSE IF v[1] = "%" /\ Len(v) >= 3 /\ {v[2], v[3]} \subseteq {HexDigits[n] : n \in 1..16}
       THEN <<16 * HexVal(v[2]) + HexVal(v[3])>> \o PercentDecode(SubSeq(v, 4, Len(v)))
       ELSE <<Ord(v[1])>> \o PercentDecode(Tail(v))

AlnumLexemes == {Chr(b) : b \in (48..57) \cup (65..90) \cup (97..122)}
Count(seq, c) == Cardinality({k \in 1..Len(seq) : seq[k] = c})

\* ---- Properties ----

\* C1: when the stored scope list of the service is empty, the scope list
\* passed to authenticator.token is the operation's hard-coded default list;
\* the authenticator is never asked for a token with an empty scope list.
C1_DefaultScopesRequested ==
  (pc = "token" /\ scopes = <<>>) =>
    (authReq = Some(DefaultScopes(Cur)) /\ authReq # Some(<<>>))

\* C2: after set_scopes(S) with a non-empty S every operation asks for its
\* token with exactly S, and set_scopes replaces the stored list: the stored
\* list is always the argument of the last set_scopes call.
C2_ExplicitScopesRequested ==
  /\ scopes = setArg
  /\ (pc = "token" /\ setArg # <<>>) => authReq = Some(setArg)

C2_Witness ==
  /\ pc = "token"
  /\ Len(setArg) = 2
  /\ authReq = Some(setArg)
  /\ DefaultScopes(Cur) # setArg

C4_BareGetUrl ==
  (/\ pc = "sent"
   /\ Cur.verb = "GET" /\ Cur.body = "none"
   /\ \A k \in 1..Len(Cur.query) :
        ~Cur.query[k][3] /\ ~Given(call.params, Cur.query[k][2]))
  => Req.uri = Cur.base \o ResolvedPath(Cur, call.params) \o <<"?">> \o FixedEntries(tok[1])

C4_Witness ==
  /\ pc = "sent"
  /\ call.op = "FilesService::get"
  /\ call.params.s["file_id"] = <<90, 45, 55>>
  /\ DOMAIN call.params.s = {"file_id"}
  /\ DOMAIN call.params.b = {}

\* C5: the query string has an entry "&name=" for an optional parameter
\* exactly when the parameter is set, and then exactly one.
C5_EntryIffSet ==
  pc = "sent" =>
    \A k \in 1..Len(Cur.query) :
      ~Cur.query[k][3] =>
        Occurrences(QueryPart(Req.uri), Cur.query[k][1])
          = IF Given(call.params, Cur.query[k][2]) THEN 1 ELSE 0

C5_Witness ==
  /\ pc = "sent"
  /\ call.op = "FilesService::list"
  /\ Given(call.params, "q")
  /\ ~Given(call.params, "page_token")
  /\ Occurrences(QueryPart(Req.uri), "q") = 1
  /\ Occurrences(QueryPart(Req.uri), "pageToken") = 0

\* C6: every query-parameter value is percent-encoded: a letter or digit
\* stands for itself and every other byte is written %XX, so the value holds
\* no literal space, '&', '=', '?' or '/', and the query string has no entry
\* and no separator beyond those of the fixed entries and the parameters.
C6_ValuesPercentEncoded ==
  pc = "sent" =>
    LET q == QueryPart(Req.uri)
        present == {k \in 1..Len(Cur.query) :
                      Cur.query[k][3] \/ Given(call.params, Cur.query[k][2])}
        fixed == IF IsUpload(Cur) THEN 3 ELSE 2
    IN /\ \A k \in present :
            LET v == EntryValue(q, Cur.query[k][1])
                bytes == ValueBytes(Cur, call.params, Cur.query[k][2])
            IN /\ \A j \in 1..Len(v) : v[j] \in AlnumLexemes \cup {"%"}
               /\ PercentDecode(v) = bytes
               /\ Len(v) = Len(bytes)
                    + 2 * Cardinality({j \in 1..Len(bytes) : ~IsAsciiAlphanumeric(bytes[j])})
       /\ Count(q, "?") = 1
       /\ Count(q, " ") = 0 /\ Count(q, "/") = 0
       /\ Count(q, "&") = fixed + Cardinality(present) - 1
       /\ Count(q, "=") = fixed + Cardinality(present)

C6_Witness ==
  /\ pc = "sent"
  /\ call.op = "FilesService::list"
  /\ Given(call.params, "q")
  /\ call.params.s["q"] = <<97, 32, 38, 61>>
  /\ EntryValue(QueryPart(Req.uri), "q") = <<"a", "%", "2", "0", "%", "2", "6", "%", "3", "D">>

\* C7: a required query parameter has exactly one entry in the query string
\* of every request of its operation, whatever its value.
C7_RequiredAlwaysPresent ==
  pc = "sent" =>
    \A k \in 1..Len(Cur.query) :
      Cur.query[k][3] => Occurrences(QueryPart(Req.uri), Cur.query[k][1]) = 1

C7_Witness ==
  /\ pc = "sent"
  /\ call.op = "ChangesService::list"
  /\ call.params.s["page_token"] = <<>>
  /\ Occurrences(QueryPart(Req.uri), "pageToken") = 1
  /\ EntryValue(QueryPart(Req.uri), "pageToken") = <<>>

\* C8: the request is a function of the operation, the params, the payload
\* and the token: whatever order the serializer is handed the entries of a
\* map in, the request built from these inputs is the one that was sent.
C8_RequestDeterminedByInputs ==
  pc = "sent" =>
    \A order \in PayloadOrders(call.payload) :
      BuildRequest(Cur, call.params, call.payload, tok[1], order) = Req

\* C9: a response whose status is not 2xx makes the call return HTTPError
\* with that status whatever the body holds; the body is never read.
C9_NonSuccessIsHttpError ==
  (resp # NoResp /\ resp.status \notin 200..299) =>
    /\ pc = "done"
    /\ result = [ok |-> FALSE, err |-> "ApiError::HTTPError",
                 status |-> resp.status, value |-> {}]
    /\ ~bodyRead

C9_Witness ==
  /\ pc = "done"
  /\ resp.status = 404
  /\ resp.body = <<"{", Quoted("id"), ":">>
  /\ result.err = "ApiError::HTTPError" /\ result.status = 404

\* The bodies that are JSON of the shape of a response type, with the value
\* each stands for.
WellFormed(ty) ==
  IF ty = "()" THEN {<<"null">>}
  ELSE {<<"{", "}">>,
        <<"{", Quoted("id"), ":", Quoted("abc"), "}">>,
        <<"{", Quoted("kind"), ":", Quoted("abc"), ",", Quoted("other"), ":", "7", "}">>}

ValueOf(ty, body) ==
  IF body = <<"{", Quoted("id"), ":", Quoted("abc"), "}">> /\ Quoted("id") \in StructFields(ty)
  THEN {<<Quoted("id"), Quoted("abc")>>}
  ELSE IF Len(body) > 5 THEN {<<Quoted("kind"), Quoted("abc")>>}
  ELSE {}

\* C10: on the buffered path a 2xx response is read, taken as UTF-8 and
\* parsed into the response type: a well-formed body yields Ok(value), any
\* other body an error that is not HTTPError; 2xx never yields HTTPError.
C10_BufferedDecode ==
  (pc = "done" /\ resp.status \in 200..299 /\ Cur.resp = "buffered") =>
    /\ bodyRead
    /\ result.err \in {"", "hyper::Error", "FromUtf8Error", "serde_json::Error"}
    /\ result.ok => (resp.body \in WellFormed(Cur.ret)
                     /\ result.value = ValueOf(Cur.ret, resp.body))
    /\ (resp.body \in WellFormed(Cur.ret) /\ result.err # "hyper::Error") => result.ok
    /\ (resp.body \notin WellFormed(Cur.ret)) => ~result.ok /\ result.err # ""

C10_Witness ==
  /\ pc = "done"
  /\ call.op = "ChangesService::get_start_page_token"
  /\ resp.status = 200
  /\ resp.body = <<"{", Quoted("kind"), ":", Quoted("abc"), ",", Quoted("other"), ":", "7", "}">>
  /\ result.ok
  /\ result.value = {<<Quoted("kind"), Quoted("abc")>>}

\* C11: a no-content operation (one that returns Result<()>) returns Ok(())
\* on every 2xx response whose body could be read, whatever the body is: also
\* when it is empty or is not JSON.
C11_NoContentAlwaysOk ==
  (/\ pc = "done"
   /\ Cur.ret = "()" /\ Cur.resp = "buffered"
   /\ resp.status \in 200..299
   /\ result.err # "hyper::Error")
  => result = [ok |-> TRUE, err |-> "", status |-> 0, value |-> {}]

\* The chunks the body stream has handed to the call, in arrival order, and
\* the data the sink has been offered, write by write.
IsChunk(e) == e.ev = "chunk"
Delivered == [k \in 1..Len(SelectSeq(trace, IsChunk)) |-> SelectSeq(trace, IsChunk)[k].data]
Offered == [k \in 1..Len(writes) |-> writes[k].data]
RECURSIVE Concat(_)
Concat(seqs) == IF seqs = <<>> THEN <<>> ELSE Head(seqs) \o Concat(Tail(seqs))

\* C12: in files.export the sink is offered one write per chunk of the
\* response, in arrival order, each write offering exactly its chunk: the
\* writes are the chunks, and their concatenation is that of the chunks.
C12_ChunksWrittenInOrder ==
  (call.op = "FilesService::export" /\ pc \in {"stream", "done"}) =>
    /\ Offered = Delivered
    /\ Concat(Offered) = Concat(Delivered)

C12_Witness ==
  /\ call.op = "FilesService::export"
  /\ pc = "done"
  /\ resp.status = 200
  /\ Delivered = << <<97, 98>>, <<99>> >>
  /\ Offered = << <<97, 98>>, <<99>> >>
  /\ result.ok

\* C13: in files.export a sink write that fails is the last write of the
\* call, and the call then returns an error: never Ok(()).
C13_SinkFailureAborts ==
  (call.op = "FilesService::export" /\ \E k \in 1..Len(writes) : writes[k].failed) =>
    /\ \A k \in 1..(Len(writes) - 1) : ~writes[k].failed
    /\ pc = "done" => ~result.ok

\* The number a decimal header value stands for.
RECURSIVE ParseDecimal(_)
ParseDecimal(v) ==
  IF v = <<>> THEN 0
  ELSE 10 * ParseDecimal(SubSeq(v, 1, Len(v) - 1)) + (Ord(v[Len(v)]) - 48)

\* C14: the request of create_upload and update_upload has the header
\* Content-Length with the payload's length as its value, has no header
\* Content-Type: application/json, and has the payload's bytes as its body.
C14_UploadRequest ==
  (pc = "sent" /\ IsUpload(Cur)) =>
    /\ Req.header.name = "Content-Length"
    /\ Req.header.value # <<>>
    /\ \A k \in 1..Len(Req.header.value) :
         Req.header.value[k] \in {Chr(b) : b \in 48..57}
    /\ ParseDecimal(Req.header.value) = Len(call.payload.data)
    /\ Req.header # [name |-> "Content-Type", value |-> <<"application/json">>]
    /\ Req.body = [k \in 1..Len(call.payload.data) |-> Chr(call.payload.data[k])]

C14_Witness ==
  /\ pc = "sent"
  /\ call.op = "FilesService::update_upload"
  /\ call.payload.data = <<97, 0, 255>>
  /\ Req.header = [name |-> "Content-Length", value |-> <<"3">>]
  /\ Len(Req.body) = 3

\* C15: every placeholder of the path template is replaced by the value of
\* its path parameter, as it is: the URL handed to the client is the base
\* URL, the resolved path and the query part, and holds no "{" or "}" of a
\* placeholder left unresolved.
C15_PlaceholdersResolved ==
  pc = "sent" =>
    /\ Count(Req.uri, "{") = 0
    /\ Count(Req.uri, "}") = 0
    /\ Req.uri = Cur.base \o ResolvedPath(Cur, call.params) \o QueryPart(Req.uri)

\* How often the call in progress has called authenticator.token and
\* client.request.
Asked(ev) == Cardinality({k \in 1..Len(trace) : trace[k].ev = ev})

C17_StepOrder ==
  /\ pc # "idle" => (trace # <<>> /\ trace[1].ev = "token")
  /\ pc = "token" => (authReq # None /\ tok = None /\ request = NoRequest /\ resp = NoResp)
  /\ request # NoRequest => (pc = "sent" /\ tok # None /\ authReq = None)
  /\ pc \in {"sent", "wait", "body", "stream"} =>
       (Len(trace) >= 2 /\ trace[2].ev = "request" /\ result = NoResult)
  /\ resp # NoResp => (pc \in {"body", "stream", "done"} /\ Asked("request") = 1)
  /\ bodyRead => resp # NoResp
  /\ result # NoResult => pc = "done"
  /\ result.err = "yup_oauth2::Error" => (Asked("request") = 0 /\ resp = NoResp)

C17_Witness ==
  /\ pc = "done"
  /\ result.err = "yup_oauth2::Error"
  /\ trace = <<[ev |-> "token", data |-> <<>>]>>

\* C18: a call keeps nothing from the calls before it and shares nothing
\* with a call in progress on another service that holds the same
\* authenticator and client.  Whatever ran before and whatever the peer does:
\* the token is asked for the stored scopes, the request is one that
\* BuildRequest makes of the call's own params, payload and token, the result
\* is the one its own response gives, the fields of the service are as
\* set_scopes left them, and a step of one call changes nothing of the other.
C18_CallsIndependent ==
  /\ [](/\ scopes = setArg
        /\ pc = "idle" =>
             (/\ call = NoCall /\ authReq = None /\ tok = None /\ request = NoRequest
              /\ resp = NoResp /\ ~bodyRead /\ items = <<>> /\ writes = <<>>
              /\ result = NoResult)
        /\ pc = "token" => authReq = Some(scopes)
        /\ pc = "sent" =>
             \E order \in PayloadOrders(call.payload) :
               Req = BuildRequest(Cur, call.params, call.payload, tok[1], order)
        /\ (pc = "done" /\ resp # NoResp /\ resp.status \notin 200..299) =>
             result = [ok |-> FALSE, err |-> "ApiError::HTTPError",
                       status |-> resp.status, value |-> {}]
        /\ (pc = "done" /\ bodyRead /\ Cur.resp = "buffered" /\ result.err # "hyper::Error") =>
             result = Decode(Cur.ret, resp.body))
  /\ [][peer' # peer =>
          UNCHANGED <<service, scopes, setArg, pc, call, authReq, tok, request, resp,
                      bodyRead, items, writes, result, trace>>]_vars

C18_Witness ==
  /\ pc = "sent"
  /\ call.op = "FilesService::get"
  /\ peer.pc = "wait"
  /\ peer.tok # tok
  /\ scopes # <<>>

\* C19: dropping a call at any of its awaits leaves the fields of the service
\* as they were before the call, and leaves nothing of the call behind.  No
\* step of a call, the drop included, changes a field of the service, and
\* the service is idle after a drop with every local of the call gone.
C19_CancelLeavesService ==
  [][/\ (pc # "idle" \/ pc' # "idle") =>
          (service' = service /\ scopes' = scopes /\ setArg' = setArg)
     /\ (pc \in {"token", "sent", "wait", "body", "stream"} /\ pc' = "idle") =>
          (/\ call' = NoCall /\ authReq' = None /\ tok' = None /\ request' = NoRequest
           /\ resp' = NoResp /\ ~bodyRead' /\ items' = <<>> /\ writes' = <<>>
           /\ result' = NoResult)]_vars

C19_Witness ==
  /\ pc = "idle"
  /\ trace = <<[ev |-> "dropped", data |-> <<>>]>>
  /\ Len(scopes) = 2
  /\ call = NoCall

\* C20: every request of an operation other than create_upload and
\* update_upload has the header Content-Type: application/json, whatever its
\* verb and also when its body is empty.
C20_JsonContentType ==
  (pc = "sent" /\ ~IsUpload(Cur)) =>
    Req.header = [name |-> "Content-Type", value |-> <<"application/json">>]

C20_Witness ==
  /\ pc = "sent"
  /\ call.op = "DrivesService::hide"
  /\ Req.method = "POST"
  /\ Req.body = <<>>
  /\ Req.header.name = "Content-Type"

\* C21: a JSON-bodied operation sends a payload with every field unset with
\* the empty string as its body, and every other payload as its JSON text.
C21_EmptyPayloadEmptyBody ==
  (pc = "sent" /\ Cur.body = "json") =>
    IF call.payload.id = None /\ call.payload.map = None
    THEN Req.body = <<>>
    ELSE Len(Req.body) > 2 /\ Req.body[1] = "{" /\ Req.body[Len(Req.body)] = "}"

\* C22: files.export decodes nothing.  When the response is 2xx, no chunk
\* failed to arrive and no write failed, the call returns Ok(()) whatever
\* bytes the body and the chunks hold.
C22_StreamNeverDecodes ==
  (/\ call.op = "FilesService::export" /\ pc = "done"
   /\ resp.status \in 200..299
   /\ Asked("chunk error") = 0
   /\ \A k \in 1..Len(writes) : ~writes[k].failed)
  => result = [ok |-> TRUE, err |-> "", status |-> 0, value |-> {}]

C22_Witness ==
  /\ call.op = "FilesService::export" /\ pc = "done"
  /\ resp.status = 200
  /\ resp.body = <<"{", Quoted("id"), ":", Chr(255), "}">>
  /\ Delivered = << <<255, 123>>, <<99>> >>
  /\ \A k \in 1..Len(writes) : ~writes[k].failed /\ writes[k].accepted = Len(writes[k].data)
  /\ result.ok

\* Where in a query part the entry of that name starts.
EntryPos(q, name) ==
  CHOOSE k \in EntryStarts(q) : k + 2 <= Len(q) /\ q[k + 1] = name /\ q[k + 2] = "="

\* C23: the query parameters of an operation appear in one fixed order, the
\* order of the operation's parameter list, whatever their values are and
\* whichever others are set; in an operation other than the upload variants
\* oauth_token comes first, fields next, and every parameter after them.
C23_FixedParameterOrder ==
  pc = "sent" =>
    LET q == QueryPart(Req.uri)
        present == {k \in 1..Len(Cur.query) :
                      Cur.query[k][3] \/ Given(call.params, Cur.query[k][2])}
    IN /\ \A k \in present : Occurrences(q, Cur.query[k][1]) = 1
       /\ \A j, k \in present :
            j < k => EntryPos(q, Cur.query[j][1]) < EntryPos(q, Cur.query[k][1])
       /\ ~IsUpload(Cur) =>
            /\ EntryPos(q, "oauth_token") = 1
            /\ EntryPos(q, "fields") = 5
            /\ \A k \in present : EntryPos(q, "fields") < EntryPos(q, Cur.query[k][1])

C23_Witness ==
  /\ pc = "sent"
  /\ call.op = "ChangesService::list"
  /\ Given(call.params, "drive_id")
  /\ call.params.s["drive_id"] = <<>>
  /\ call.params.s["page_token"] # <<>>
  /\ EntryPos(QueryPart(Req.uri), "driveId") < EntryPos(QueryPart(Req.uri), "pageToken")

\* C24: no call uses a token it did not ask for itself.  Every call in
\* progress has asked the authenticator once; no token is held when no call
\* is past its token step; and the oauth_token entry of the request URL is
\* the token the authenticator gave to this call, whatever token a call on a
\* peer service holds.
C24_TokenIsOwn ==
  /\ pc # "idle" => Asked("token") = 1
  /\ pc \in {"idle", "token"} => tok = None
  /\ pc = "sent" =>
       /\ Occurrences(QueryPart(Req.uri), "oauth_token") = 1
       /\ EntryValue(QueryPart(Req.uri), "oauth_token") = <<tok[1]>>

C24_Witness ==
  /\ pc = "sent"
  /\ call.op = "AboutService::get"
  /\ peer.tok = <<"ya29.A">>
  /\ tok = <<"ya29.B">>
  /\ EntryValue(QueryPart(Req.uri), "oauth_token") = <<"ya29.B">>

\* C25: every call ends in exactly one outcome.  A call that has asked for
\* its token returns in the end; what it returns is a value or an error,
\* never both; nothing is returned before the end; and a value is returned
\* only after a 2xx response has been read.
C25_OneOutcome ==
  /\ [](/\ pc # "done" => result = NoResult
        /\ pc = "done" =>
             \/ result.ok /\ result.err = "" /\ result.status = 0
             \/ ~result.ok /\ result.err # "" /\ result.value = {}
        /\ (pc = "done" /\ result.ok) =>
             (resp.status \in 200..299 /\ bodyRead /\ Asked("request") = 1))
  /\ (pc = "token") ~> (pc = "done")

C25_Witness ==
  /\ pc = "done"
  /\ call.op = "FilesService::export"
  /\ result.ok
  /\ Len(items) = 2

\* The part of a URL before its query part.
PathPart(uri) == SubSeq(uri, 1, Len(uri) - Len(QueryPart(uri)))
Contains(seq, sub) ==
  \E k \in 0..(Len(seq) - Len(sub)) : SubSeq(seq, k + 1, k + Len(sub)) = sub

\* C26: the request of files.export names the file of params.file_id in its
\* path, and its path is not the path of files.empty_trash.
C26_ExportNamesFile ==
  (pc = "sent" /\ call.op = "FilesService::export") =>
    /\ Contains(SubSeq(PathPart(Req.uri), Len(Cur.base) + 1, Len(PathPart(Req.uri))),
                [k \in 1..Len(call.params.s["file_id"]) |-> Chr(call.params.s["file_id"][k])])
    /\ PathPart(Req.uri) # FilesService_empty_trash.base \o FilesService_empty_trash.rel

\* C27: no step of an operation call changes the stored scopes: from the
\* call to the return or the drop of the call they stay what the last
\* set_scopes made them, whatever the outcome, and the scopes a call asks its
\* token for are the stored ones, never the defaults of an earlier call.
C27_CallsKeepScopes ==
  /\ [][(pc # "idle" \/ pc' # "idle") => (scopes' = scopes /\ setArg' = setArg)]_vars
  /\ [](pc # "idle" => (scopes = setArg /\ (pc = "token" => authReq = Some(setArg))))
C27_Witness ==
  /\ pc = "done"
  /\ ~result.ok
  /\ Cur.fallback
  /\ scopes = <<>>
  /\ setArg = <<>>
  /\ DefaultScopes(Cur) # <<>>

\* C28: in files.export a response whose status is not 2xx ends the call
\* with HTTPError of that status before the body stream is polled: no chunk
\* is received and nothing is written to the sink.
C28_ErrorStatusNoWrites ==
  (call.op = "FilesService::export" /\ resp # NoResp /\ ~(resp.status \in 200..299)) =>
    /\ pc = "done"
    /\ result = HTTPError(resp.status)
    /\ ~bodyRead
    /\ items = <<>>
    /\ writes = <<>>
    /\ Asked("chunk") = 0
    /\ Asked("chunk error") = 0
C28_Witness ==
  /\ pc = "done"
  /\ call.op = "FilesService::export"
  /\ resp.status = 404
  /\ resp.body # <<>>
  /\ result = HTTPError(404)
  /\ writes = <<>>

\* What the sink has taken: of each write, the bytes it accepted.
Accepted == [k \in 1..Len(writes) |-> SubSeq(writes[k].data, 1, writes[k].accepted)]

\* C29: when files.export returns Ok(()) the sink has taken every byte of
\* every chunk received: its contents are the response body.
C29_OkMeansAllBytesTaken ==
  (pc = "done" /\ call.op = "FilesService::export" /\ result.ok) =>
    /\ \A k \in 1..Len(writes) : writes[k].accepted = Len(writes[k].data)
    /\ Concat(Accepted) = Concat(Delivered)

\* The place in arrival order of the first item of the body stream that
\* failed (0 when none did).
FirstFailed ==
  IF \E k \in 1..Len(items) : ~items[k].ok
  THEN CHOOSE k \in 1..Len(items) : ~items[k].ok /\ \A j \in 1..(k - 1) : items[j].ok
  ELSE 0

\* C30: in files.export, when receiving an item of the body fails, the call
\* returns the error of the first item that failed; the chunks that came
\* before it were written to the sink in their order, and an item that
\* failed is no write: there are as many writes as chunks received.
C30_FirstReceiveError ==
  (call.op = "FilesService::export" /\ (pc = "stream" \/ (pc = "done" /\ bodyRead))) =>
    /\ Len(trace) = 2 + Len(items)
    /\ \A j \in 1..Len(items) :
         trace[2 + j].ev = (IF items[j].ok THEN "chunk" ELSE "chunk error")
    /\ Len(writes) = Cardinality({j \in 1..Len(items) : items[j].ok})
    /\ (FirstFailed > 0) =>
         /\ Len(writes) >= FirstFailed - 1
         /\ \A j \in 1..(FirstFailed - 1) : writes[j].data = trace[2 + j].data
         /\ pc = "done" => result = items[FirstFailed]
C30_Witness ==
  /\ pc = "done"
  /\ call.op = "FilesService::export"
  /\ Len(items) = 2
  /\ ~items[1].ok
  /\ ~items[2].ok
  /\ items[1] # items[2]
  /\ result = items[1]
  /\ writes = <<>>

====
